---- MODULE Spec2Model ----
(***************************************************************************)
(* Rhythm-Sync-Game: the beat timeline, the on-beat predicate, the         *)
(* scoreboard, the acoustic onset detector, the next-tempo selection and   *)
(* the session controller, modelled from src/game/*.py and src/input/*.py. *)
(*                                                                         *)
(* Time.  Every timestamp read from time.time() is an integer number of    *)
(* ticks of 0.01 s.  Values computed from a tempo (60 / bpm * 2) are exact *)
(* rationals <<numerator, denominator>> with a positive denominator, so    *)
(* that no tempo is rounded.  Energies are integers in units of 0.001.     *)
(***************************************************************************)
EXTENDS Integers, Sequences, FiniteSets, TLC

VARIABLES
    \* GameLogic
    songs, current_song, current_bpm, beat_times, is_playing, is_tracking,
    start_time, game_duration, tolerance, score_threshold,
    input_mode, countdown,
    \* MusicPlayer
    mp_bpm, mp_playing,
    \* KeyboardHandler (player_keys is the domain of last_press_time)
    kb_is_tracking, last_press_time, player_claps,
    \* Scoring
    player_count, scores, total_beats,
    \* AudioHandler
    threshold, min_time_between_claps, last_clap_time, running, clap_count,
    clap_timestamps, rising_energy, peak_in_progress,
    \* the clock, the main thread's position, and the record of the last
    \* operation (its name, inputs and outcome)
    now, pc, last,
    \* RhythmGameUI (its state, its menu choices, whether self.game is set,
    \* and how many AudioHandlers of earlier games are still capturing), and
    \* the audio thread's position inside GameLogic.handle_audio_clap
    ui, cb,
    \* history: per participant, the register_clap calls received since the
    \* last reset; of the samples the running detector has been given, how
    \* many there were and which onsets they call for (see StreamAfter); how
    \* many times end_game has gone past its is_playing test since the last
    \* start_game that began playing
    calls, stream, ended

gameVars  == <<songs, current_song, current_bpm, beat_times, is_playing,
               is_tracking, start_time, game_duration, tolerance,
               score_threshold, mp_bpm>>
scoreVars == <<player_count, scores, total_beats, calls>>
audioVars == <<threshold, min_time_between_claps, last_clap_time, running,
               clap_count, clap_timestamps, rising_energy, peak_in_progress,
               stream>>
ioVars    == <<input_mode, countdown, mp_playing, kb_is_tracking,
               last_press_time, player_claps, ended, ui, cb>>
vars      == <<gameVars, scoreVars, audioVars, ioVars, now, pc, last>>

(***************************************************************************)
(* Units, Python's None, and exact arithmetic.                             *)
(***************************************************************************)
TicksPerSecond == 100

\* Python's None for a tempo or a song that has not been set.
None == -1000000

\* Python truthiness of a number-or-None: `not x` is true of None and of 0.
Falsy(x) == x = None \/ x = 0

Abs(x) == IF x < 0 THEN -x ELSE x

Rat(n, d)      == IF d < 0 THEN <<-n, -d>> ELSE <<n, d>>
RatOfInt(k)    == <<k, 1>>
RatAdd(a, b)   == <<a[1] * b[2] + b[1] * a[2], a[2] * b[2]>>
RatSub(a, b)   == <<a[1] * b[2] - b[1] * a[2], a[2] * b[2]>>
RatScale(k, a) == <<k * a[1], a[2]>>
RatDiv(a, b)   == Rat(a[1] * b[2], a[2] * b[1])
RatAbs(a)      == <<Abs(a[1]), a[2]>>
RatLe(a, b)    == a[1] * b[2] <= b[1] * a[2]
RatLt(a, b)    == a[1] * b[2] < b[1] * a[2]
RatEq(a, b)    == a[1] * b[2] = b[1] * a[2]

\* Python's int() of a float: truncation toward zero.
RatTrunc(a) == IF a[1] >= 0 THEN a[1] \div a[2] ELSE -((-a[1]) \div a[2])

(***************************************************************************)
(* MusicPlayer.get_beat_times and GameLogic.is_on_beat.                    *)
(***************************************************************************)
\* interval = 60 / self.current_bpm * 2, in ticks.
BeatInterval(bpm) == Rat(60 * TicksPerSecond * 2, bpm)

\* The `<=` mutated to `<`.
is_on_beat_strict(timestamp, beats, tol) ==
    \E i \in 1..Len(beats) :
        RatLt(RatAbs(RatSub(RatOfInt(timestamp), beats[i])), RatOfInt(tol))

\* any(abs(timestamp - beat) <= self.tolerance for beat in self.beat_times)
is_on_beat(timestamp, beats, tol) ==
    \E i \in 1..Len(beats) :
        RatLe(RatAbs(RatSub(RatOfInt(timestamp), beats[i])), RatOfInt(tol))

\* The beat count without the `+ 1`.
get_beat_times_short(bpm, start, duration) ==
    IF Falsy(bpm) THEN <<>>
    ELSE LET interval == BeatInterval(bpm)
             count    == RatTrunc(RatDiv(RatOfInt(duration), interval))
         IN  [i \in 1..count |->
                 RatAdd(RatOfInt(start), RatScale(i - 1, interval))]

\* [start_time + i * interval for i in range(int(duration / interval) + 1)],
\* or [] when current_bpm is None or 0.
get_beat_times(bpm, start, duration) ==
    IF Falsy(bpm) THEN <<>>
    ELSE LET interval == BeatInterval(bpm)
             count    == RatTrunc(RatDiv(RatOfInt(duration), interval)) + 1
         IN  [i \in 1..count |->
                 RatAdd(RatOfInt(start), RatScale(i - 1, interval))]

(***************************************************************************)
(* Scoring.                                                                *)
(***************************************************************************)
\* {i: {'claps': 0, 'on_beat': 0} for i in range(1, self.player_count + 1)}
reset_scores(count) == [i \in 1..count |-> [claps |-> 0, on_beat |-> 0]]

\* The on-beat count raised whatever is_on_beat says.
register_clap_always(sc, player_id, on_beat) ==
    IF player_id \in DOMAIN sc
    THEN [sc EXCEPT ![player_id] =
             [claps |-> @.claps + 1, on_beat |-> @.on_beat + 1]]
    ELSE sc

\* Scoring.register_clap: the scoreboard after one call.
register_clap(sc, player_id, on_beat) ==
    IF player_id \in DOMAIN sc
    THEN [sc EXCEPT ![player_id] =
             [claps   |-> @.claps + 1,
              on_beat |-> IF on_beat THEN @.on_beat + 1 ELSE @.on_beat]]
    ELSE sc

\* A variant of the scan that lets a later participant with an equal count
\* take the lead.
RECURSIVE winner_scan_last(_, _, _, _)
winner_scan_last(sc, i, best_player, best_score) ==
    IF i > Len(sc) THEN best_player
    ELSE IF sc[i].on_beat >= best_score
         THEN winner_scan_last(sc, i + 1, i, sc[i].on_beat)
         ELSE winner_scan_last(sc, i + 1, best_player, best_score)

\* Scoring.get_winner: the scan over self.scores in participant order with
\* best_score starting at -1; None when there is no participant.
RECURSIVE winner_scan(_, _, _, _)
winner_scan(sc, i, best_player, best_score) ==
    IF i > Len(sc) THEN best_player
    ELSE IF sc[i].on_beat > best_score
         THEN winner_scan(sc, i + 1, i, sc[i].on_beat)
         ELSE winner_scan(sc, i + 1, best_player, best_score)

get_winner(sc) == IF Len(sc) = 0 THEN None ELSE winner_scan(sc, 1, None, -1)

(***************************************************************************)
(* The state after construction: GameLogic.__init__, MusicPlayer.__init__, *)
(* Scoring.__init__ and AudioHandler.__init__ with the defaults of         *)
(* config.py.                                                              *)
(***************************************************************************)
DEFAULT_GAME_DURATION  == 20 * TicksPerSecond
BEAT_TOLERANCE         == 20
SCORE_THRESHOLD        == 5
DEFAULT_THRESHOLD      == 100
MIN_TIME_BETWEEN_CLAPS == 50

GameInit ==
    /\ songs = <<>>
    /\ current_song = None
    /\ current_bpm = None
    /\ beat_times = <<>>
    /\ is_playing = FALSE
    /\ is_tracking = FALSE
    /\ start_time = 0
    /\ game_duration = DEFAULT_GAME_DURATION
    /\ tolerance = BEAT_TOLERANCE
    /\ score_threshold = SCORE_THRESHOLD
    /\ mp_bpm = None

COUNTDOWN_DURATION == 5 * TicksPerSecond

\* RhythmGameUI.__init__: the menu, keyboard input and the slow tempo range
\* selected, no game yet.  (orphans and built are history: the AudioHandlers
\* that self.game no longer refers to and that were never stopped, and the
\* number of games initialize_game has built.)
UiInit ==
    [state |-> "menu", input_mode |-> "keyboard", tempo_mode |-> "slow",
     game |-> FALSE, orphans |-> 0, built |-> 0]

\* The audio thread outside handle_audio_clap.  Inside it, pc is the
\* statement reached, timestamp the onset's time, on_beat and judged_on the
\* result of is_on_beat and the timeline it was computed on; counted is
\* history: the register_clap calls the callback has made since is_tracking
\* was last set.
CbIdle ==
    [pc |-> "idle", timestamp |-> 0, on_beat |-> FALSE, judged_on |-> <<>>,
     counted |-> 0]

\* input_mode and countdown of GameLogic.__init__, MusicPlayer.is_playing, and
\* KeyboardHandler.__init__ for the players 1..count.
IoInit(count) ==
    /\ input_mode = "keyboard"
    /\ countdown = COUNTDOWN_DURATION
    /\ mp_playing = FALSE
    /\ kb_is_tracking = FALSE
    /\ last_press_time = [i \in 1..count |-> 0]
    /\ player_claps = [i \in 1..count |-> <<>>]
    /\ ended = 0
    /\ ui = UiInit
    /\ cb = CbIdle

ScoringInit(count) ==
    /\ player_count = count
    /\ scores = reset_scores(count)
    /\ total_beats = 0
    /\ calls = [i \in 1..count |-> [n |-> 0, k |-> 0]]

AudioInit ==
    /\ threshold = DEFAULT_THRESHOLD
    /\ min_time_between_claps = MIN_TIME_BETWEEN_CLAPS
    /\ last_clap_time = 0
    /\ running = FALSE
    /\ clap_count = 0
    /\ clap_timestamps = <<>>
    /\ rising_energy = FALSE
    /\ peak_in_progress = FALSE
    /\ stream = [fed |-> 0, pending |-> FALSE, owed |-> <<>>,
                 inwin |-> FALSE, muted |-> FALSE, called |-> <<>>]

(***************************************************************************)
(* SpecTimeline: the timeline generator and the on-beat predicate applied  *)
(* to inputs drawn from bounded sets.                                      *)
(***************************************************************************)
MaxDurationSteps == 8
MaxProbeSteps    == 30

BpmInputs      == {-120, -60, -1, 0, 60, 74, 80, 100, 120, 140}
StartInputs    == {0, 7, 1000}
DurationInputs == {50 * k : k \in 0..MaxDurationSteps}
ToleranceInputs == {0, 20, 100}

TimelineInit ==
    /\ songs = <<>>
    /\ current_song = None
    /\ current_bpm = None
    /\ beat_times = <<>>
    /\ is_playing = FALSE
    /\ is_tracking = FALSE
    /\ start_time \in StartInputs
    /\ game_duration \in DurationInputs
    /\ tolerance \in ToleranceInputs
    /\ score_threshold = SCORE_THRESHOLD
    /\ mp_bpm \in BpmInputs
    /\ ScoringInit(1)
    /\ AudioInit
    /\ now = 0
    /\ pc = "idle"
    /\ IoInit(0)
    /\ last = [op |-> "init"]

\* self.beat_times = self.music_player.get_beat_times(self.start_time,
\*                                                    self.game_duration)
GetBeatTimes ==
    /\ last.op = "init"
    /\ beat_times' = get_beat_times(mp_bpm, start_time, game_duration)
    /\ last' = [op |-> "get_beat_times"]
    /\ UNCHANGED <<songs, current_song, current_bpm, is_playing, is_tracking,
                   start_time, game_duration, tolerance, score_threshold,
                   mp_bpm, scoreVars, audioVars, now, pc, ioVars>>

\* self.is_on_beat(timestamp) for a timestamp near the start of the timeline.
IsOnBeat ==
    /\ last.op # "init"
    /\ \E k \in 0..MaxProbeSteps :
          LET timestamp == start_time - 25 + 5 * k
          IN  last' = [op        |-> "is_on_beat",
                       timestamp |-> timestamp,
                       result    |-> is_on_beat(timestamp, beat_times, tolerance)]
    /\ UNCHANGED <<gameVars, scoreVars, audioVars, now, pc, ioVars>>

TimelineNext == GetBeatTimes \/ IsOnBeat

SpecTimeline == TimelineInit /\ [][TimelineNext]_vars

(***************************************************************************)
(* Claims about the timeline (checked under SpecTimeline).                 *)
(***************************************************************************)
\* C1: for every start time, every bpm > 0 and every duration > 0 the
\* generated timeline starts at the start time, has consecutive elements
\* exactly 60/bpm*2 seconds apart, is strictly increasing, and has
\* floor(duration / interval) + 1 elements.
C1_BeatTimeline ==
    (last.op # "init" /\ mp_bpm > 0 /\ game_duration > 0) =>
        LET n == Len(beat_times)
        IN  /\ n = (game_duration * mp_bpm) \div (60 * 2 * TicksPerSecond) + 1
            /\ RatEq(beat_times[1], RatOfInt(start_time))
            /\ \A i \in 1..(n - 1) :
                  /\ RatEq(RatSub(beat_times[i + 1], beat_times[i]),
                           <<60 * 2 * TicksPerSecond, mp_bpm>>)
                  /\ RatLt(beat_times[i], beat_times[i + 1])

\* A timeline of three beats generated for 74 bpm, whose interval is not a
\* whole number of ticks.
C1_Witness ==
    /\ last.op = "get_beat_times"
    /\ mp_bpm = 74
    /\ game_duration = 400
    /\ Len(beat_times) = 3

\* C3: is_on_beat(t) is true exactly when some beat of the current timeline
\* lies in [t - tolerance, t + tolerance], both ends included; with the
\* timeline [0.0, 1.0, 2.0] and tolerance 0.2 an event at 1.15 or 1.20 is
\* on-beat and one at 1.25 is not; with an empty timeline nothing is on-beat.
C3_OnBeat ==
    last.op = "is_on_beat" =>
        /\ last.result =
              (\E i \in 1..Len(beat_times) :
                  /\ (last.timestamp - tolerance) * beat_times[i][2]
                        <= beat_times[i][1]
                  /\ beat_times[i][1]
                        <= (last.timestamp + tolerance) * beat_times[i][2])
        /\ (Len(beat_times) = 0) => ~last.result
        /\ (/\ start_time = 0
            /\ mp_bpm = 120
            /\ game_duration \in {200, 250}
            /\ tolerance = 20) =>
               /\ Len(beat_times) = 3
               /\ (last.timestamp = 115) => last.result
               /\ (last.timestamp = 120) => last.result
               /\ (last.timestamp = 125) => ~last.result

\* The boundary case: an event exactly the tolerance after the beat at 1.0 of
\* the timeline [0.0, 1.0, 2.0] has been judged on-beat.
C3_Witness ==
    /\ last.op = "is_on_beat"
    /\ start_time = 0
    /\ mp_bpm = 120
    /\ game_duration = 200
    /\ tolerance = 20
    /\ last.timestamp = 120
    /\ last.result

(***************************************************************************)
(* SpecScoring: the scoreboard under any sequence of register_clap,        *)
(* register_beat, reset_scores and get_winner calls, the on-beat flag of   *)
(* each clap being is_on_beat of its time on the timeline [0.0, 1.0, 2.0]  *)
(* with a tolerance of 0.2 s or of 1 s.                                    *)
(***************************************************************************)
MaxPlayers == 2
MaxClaps   == 3
MaxBeats   == 2

ClapTimeInputs == {50, 100, 350}

ScoringSpecInit ==
    /\ songs = <<>>
    /\ current_song = None
    /\ current_bpm = None
    /\ beat_times = get_beat_times(120, 0, 2 * TicksPerSecond)
    /\ is_playing = FALSE
    /\ is_tracking = FALSE
    /\ start_time = 0
    /\ game_duration = DEFAULT_GAME_DURATION
    /\ tolerance \in {BEAT_TOLERANCE, 1 * TicksPerSecond}
    /\ score_threshold = SCORE_THRESHOLD
    /\ mp_bpm = None
    /\ \E count \in 0..MaxPlayers : ScoringInit(count)
    /\ AudioInit
    /\ now = 0
    /\ pc = "idle"
    /\ IoInit(0)
    /\ last = [op |-> "init"]

\* The beats of the timeline within the tolerance of a timestamp.
beats_near(timestamp) ==
    {i \in 1..Len(beat_times) :
        RatLe(RatAbs(RatSub(RatOfInt(timestamp), beat_times[i])),
              RatOfInt(tolerance))}

\* scoring.register_clap(player_id, self.is_on_beat(clap_time)), for known
\* and unknown ids.
RegisterClap ==
    \E player_id \in 1..(MaxPlayers + 1), clap_time \in ClapTimeInputs :
      LET on_beat == is_on_beat(clap_time, beat_times, tolerance)
      IN
        /\ player_id \in DOMAIN scores => scores[player_id].claps < MaxClaps
        /\ scores' = register_clap(scores, player_id, on_beat)
        /\ calls' = IF player_id \in DOMAIN calls
                    THEN [calls EXCEPT ![player_id] =
                             [n |-> @.n + 1,
                              k |-> IF on_beat THEN @.k + 1 ELSE @.k]]
                    ELSE calls
        /\ last' = [op |-> "register_clap", player_id |-> player_id,
                    on_beat |-> on_beat, clap_time |-> clap_time]
        /\ UNCHANGED <<player_count, total_beats, gameVars, audioVars, now, pc, ioVars>>

\* scoring.register_beat()
RegisterBeat ==
    /\ total_beats < MaxBeats
    /\ total_beats' = total_beats + 1
    /\ last' = [op |-> "register_beat"]
    /\ UNCHANGED <<player_count, scores, calls, gameVars, audioVars, now, pc, ioVars>>

\* scoring.reset_scores()
ResetScores ==
    /\ scores' = reset_scores(player_count)
    /\ total_beats' = 0
    /\ calls' = [i \in 1..player_count |-> [n |-> 0, k |-> 0]]
    /\ last' = [op |-> "reset_scores"]
    /\ UNCHANGED <<player_count, gameVars, audioVars, now, pc, ioVars>>

\* scoring.get_winner(): the winning participant, or None.
GetWinner ==
    /\ last' = [op |-> "get_winner", result |-> get_winner(scores)]
    /\ UNCHANGED <<scoreVars, gameVars, audioVars, now, pc, ioVars>>

ScoringNext == RegisterClap \/ RegisterBeat \/ ResetScores \/ GetWinner

SpecScoring == ScoringSpecInit /\ [][ScoringNext]_vars

\* C4: a participant that has received N register_clap calls since the last
\* reset, K of them on-beat, has claps = N and on_beat = K whatever the order
\* of the calls, and on_beat <= claps in every reachable state.
C4_Accumulation ==
    \A p \in 1..player_count :
        /\ scores[p].claps = calls[p].n
        /\ scores[p].on_beat = calls[p].k
        /\ scores[p].on_beat <= scores[p].claps

\* Participant 2 has one on-beat clap out of three while beats were tallied
\* and participant 1 has claps of its own.
C4_Witness ==
    /\ player_count = 2
    /\ calls[2] = [n |-> 3, k |-> 1]
    /\ calls[1].n = 2
    /\ total_beats = 2

\* C25: one input event gives at most one scoring outcome: a register_clap
\* call for a known participant raises that participant's claps by exactly 1
\* and its on_beat by exactly 1 if the event is on-beat and by 0 otherwise,
\* also when several beats lie within the tolerance of the event; it leaves
\* every other participant and total_beats unchanged; and a call for an
\* unknown participant id changes nothing.
C25_OneOutcome ==
    [][last'.op = "register_clap" =>
          LET p == last'.player_id
          IN  /\ total_beats' = total_beats
              /\ DOMAIN scores' = DOMAIN scores
              /\ \A q \in DOMAIN scores :
                    q # p => scores'[q] = scores[q]
              /\ p \in DOMAIN scores =>
                    /\ scores'[p].claps = scores[p].claps + 1
                    /\ scores'[p].on_beat =
                          scores[p].on_beat
                            + (IF beats_near(last'.clap_time) # {}
                               THEN 1 ELSE 0)]_vars

\* Participant 2's second clap, on-beat like its first, lies within the
\* tolerance of two beats; participant 1 has an off-beat clap; a beat is
\* tallied.
C25_Witness ==
    /\ player_count = 2
    /\ last.op = "register_clap"
    /\ last.player_id = 2
    /\ Cardinality(beats_near(last.clap_time)) = 2
    /\ scores[2] = [claps |-> 2, on_beat |-> 2]
    /\ scores[1] = [claps |-> 1, on_beat |-> 0]
    /\ total_beats = 1

\* C15: get_winner returns a participant whose on-beat count is the maximum;
\* among several with the maximum, the one with the lowest id; None only when
\* there is no participant; and participant 1 when every count is zero.
C15_Winner ==
    last.op = "get_winner" =>
        IF player_count = 0 THEN last.result = None
        ELSE /\ last.result \in 1..player_count
             /\ \A p \in 1..player_count :
                    /\ scores[p].on_beat <= scores[last.result].on_beat
                    /\ p < last.result =>
                          scores[p].on_beat < scores[last.result].on_beat
             /\ (\A p \in 1..player_count : scores[p].on_beat = 0) =>
                    last.result = 1

\* get_winner was asked with two participants tied on two on-beat claps and
\* answered participant 1.
C15_Witness ==
    /\ last.op = "get_winner"
    /\ player_count = 2
    /\ scores[1].on_beat = 2
    /\ scores[2].on_beat = 2
    /\ last.result = 1

(***************************************************************************)
(* AudioHandler: the onset detector.                                       *)
(***************************************************************************)
\* The detector's own state as one record.
Detector ==
    [last_clap_time   |-> last_clap_time,
     clap_count       |-> clap_count,
     clap_timestamps  |-> clap_timestamps,
     rising_energy    |-> rising_energy,
     peak_in_progress |-> peak_in_progress,
     called           |-> stream.called]

\* A variant of clap_detected that records the onset and does not invoke the
\* callback.
clap_detected_silent(d, timestamp) ==
    [d EXCEPT !.clap_count = @ + 1,
              !.last_clap_time = timestamp,
              !.clap_timestamps = Append(@, timestamp)]

\* AudioHandler.clap_detected(timestamp): the onset counted, timestamped and
\* recorded, and the registered callback invoked with the timestamp (`called`
\* lists the invocations).
clap_detected(d, timestamp) ==
    [d EXCEPT !.clap_count = @ + 1,
              !.last_clap_time = timestamp,
              !.clap_timestamps = Append(@, timestamp),
              !.called = Append(@, timestamp)]

\* The onset registered on the rising sample instead of the falling one.
detector_step_on_rise(d, th, m, energy, current_time) ==
    IF current_time - d.last_clap_time > m
    THEN IF energy > th /\ ~d.peak_in_progress
         THEN clap_detected([d EXCEPT !.peak_in_progress = TRUE,
                                      !.rising_energy = TRUE], current_time)
         ELSE IF energy * 2 < th
              THEN [d EXCEPT !.peak_in_progress = FALSE,
                             !.rising_energy = FALSE]
              ELSE d
    ELSE d

\* The refractory test dropped.
detector_step_no_refractory(d, th, m, energy, current_time) ==
    IF energy > th /\ ~d.peak_in_progress
    THEN [d EXCEPT !.peak_in_progress = TRUE, !.rising_energy = TRUE]
    ELSE IF d.peak_in_progress /\ d.rising_energy /\ energy < th
         THEN [clap_detected(d, current_time)
                  EXCEPT !.rising_energy = FALSE,
                         !.peak_in_progress = FALSE]
         ELSE IF energy * 2 < th
              THEN [d EXCEPT !.peak_in_progress = FALSE,
                             !.rising_energy = FALSE]
              ELSE d

\* AudioHandler.audio_callback from `current_time = time.time()` on: the
\* detector after one sample of the given energy (energy < threshold * 0.5 is
\* energy * 2 < threshold).
detector_step(d, th, m, energy, current_time) ==
    IF current_time - d.last_clap_time > m
    THEN IF energy > th /\ ~d.peak_in_progress
         THEN [d EXCEPT !.peak_in_progress = TRUE, !.rising_energy = TRUE]
         ELSE IF d.peak_in_progress /\ d.rising_energy /\ energy < th
              THEN [clap_detected(d, current_time)
                       EXCEPT !.rising_energy = FALSE,
                              !.peak_in_progress = FALSE]
              ELSE IF energy * 2 < th
                   THEN [d EXCEPT !.peak_in_progress = FALSE,
                                  !.rising_energy = FALSE]
                   ELSE d
    ELSE d

\* A variant of the callback without the `if self.is_tracking`.
handle_audio_clap_untracked(sc, timestamp) ==
    register_clap(sc, 1, is_on_beat(timestamp, beat_times, tolerance))

\* A variant of the callback that credits participant 2.
handle_audio_clap_second(sc, timestamp) ==
    IF is_tracking
    THEN register_clap(sc, 2, is_on_beat(timestamp, beat_times, tolerance))
    ELSE sc

\* GameLogic.handle_audio_clap, the callback registered in
\* GameLogic.__init__: the scoreboard after an onset at `timestamp`.
handle_audio_clap(sc, timestamp) ==
    IF is_tracking
    THEN register_clap(sc, 1, is_on_beat(timestamp, beat_times, tolerance))
    ELSE sc

\* History of the sample stream, kept beside the detector and never read by
\* it.  A sample is `clear` when it comes more than min_time_between_claps
\* after the last registered onset (or when no onset has been registered).
\*   pending: a clear sample above the threshold has been seen and no sample
\*            below the threshold has followed it;
\*   owed:    the timestamps of the clear samples below the threshold that
\*            arrived while pending;
\*   inwin:   a sample above the threshold has been seen inside the current
\*            refractory window;
\*   muted:   a sample below the threshold followed it inside that window;
\*   called:  the timestamps the registered callback has been invoked with
\*            (written by clap_detected, carried over here).
StreamAfter(st, energy, current_time) ==
    LET n     == Len(clap_timestamps)
        clear == n = 0 \/ current_time - clap_timestamps[n] > min_time_between_claps
    IN  [fed     |-> st.fed + 1,
         pending |-> IF energy < threshold THEN FALSE
                     ELSE IF energy > threshold /\ clear THEN TRUE
                     ELSE st.pending,
         owed    |-> IF energy < threshold /\ st.pending /\ clear
                     THEN Append(st.owed, current_time) ELSE st.owed,
         inwin   |-> IF clear THEN FALSE
                     ELSE IF energy > threshold THEN TRUE ELSE st.inwin,
         muted   |-> st.muted \/ (energy < threshold /\ ~clear /\ st.inwin),
         called  |-> st.called]

\* One invocation of audio_callback by the audio subsystem at clock value
\* current_time with a buffer of the given energy.
AudioCallbackAt(energy, current_time) ==
    /\ now' = current_time
    /\ IF running
       THEN LET d == detector_step(Detector, threshold, min_time_between_claps,
                                   energy, current_time)
            IN  /\ last_clap_time' = d.last_clap_time
                /\ clap_count' = d.clap_count
                /\ clap_timestamps' = d.clap_timestamps
                /\ rising_energy' = d.rising_energy
                /\ peak_in_progress' = d.peak_in_progress
                /\ stream' = [StreamAfter(stream, energy, current_time)
                                 EXCEPT !.called = d.called]
                /\ IF d.called # stream.called
                   THEN /\ scores' = handle_audio_clap(scores, current_time)
                        /\ calls' = IF is_tracking /\ 1 \in DOMAIN calls
                                    THEN [calls EXCEPT ![1] =
                                       [n |-> @.n + 1,
                                        k |-> IF is_on_beat(current_time,
                                                     beat_times, tolerance)
                                              THEN @.k + 1 ELSE @.k]]
                                    ELSE calls
                   ELSE UNCHANGED <<scores, calls>>
       ELSE UNCHANGED <<last_clap_time, clap_count, clap_timestamps,
                        rising_energy, peak_in_progress, stream, scores,
                        calls>>
    /\ last' = [op |-> "audio_callback", energy |-> energy,
                current_time |-> current_time, running |-> running]
    /\ UNCHANGED <<threshold, min_time_between_claps, running, player_count,
                   total_beats, gameVars, pc, ioVars>>

\* AudioHandler.start(): the stream opens and starts.
AudioStartOk ==
    /\ ~running
    /\ running' = TRUE
    /\ last' = [op |-> "audio_start", ok |-> TRUE]
    /\ UNCHANGED <<threshold, min_time_between_claps, last_clap_time,
                   clap_count, clap_timestamps, rising_energy,
                   peak_in_progress, stream, gameVars, scoreVars, now, pc, ioVars>>

\* A variant of start() whose failure leaves running set.
AudioStartFailStillRunning ==
    /\ ~running
    /\ running' = TRUE
    /\ last' = [op |-> "audio_start", ok |-> FALSE]
    /\ UNCHANGED <<threshold, min_time_between_claps, last_clap_time,
                   clap_count, clap_timestamps, rising_energy,
                   peak_in_progress, stream, gameVars, scoreVars, now, pc, ioVars>>

\* AudioHandler.start(): opening the stream raises; the handler prints the
\* error and calls stop().
AudioStartFail ==
    /\ ~running
    /\ running' = FALSE
    /\ last' = [op |-> "audio_start", ok |-> FALSE]
    /\ UNCHANGED <<threshold, min_time_between_claps, last_clap_time,
                   clap_count, clap_timestamps, rising_energy,
                   peak_in_progress, stream, gameVars, scoreVars, now, pc, ioVars>>

\* AudioHandler.stop()
AudioStop ==
    /\ running
    /\ running' = FALSE
    /\ last' = [op |-> "audio_stop"]
    /\ UNCHANGED <<threshold, min_time_between_claps, last_clap_time,
                   clap_count, clap_timestamps, rising_energy,
                   peak_in_progress, stream, gameVars, scoreVars, now, pc, ioVars>>

(***************************************************************************)
(* SpecAudio: the detector under any stream of samples whose timestamps    *)
(* never decrease.  The clock starts far enough from 0, the initial        *)
(* last_clap_time, for the first sample to be outside every refractory     *)
(* window modelled (time.time() is seconds since 1970).                    *)
(***************************************************************************)
MaxClockSteps == 6
MaxSamples    == 7

ClockStart       == 10 * TicksPerSecond
ClockStep        == 3 * 10
EnergyInputs     == {10, 70, 100, 500}
RefractoryInputs == {0, MIN_TIME_BETWEEN_CLAPS}
ThresholdInputs  == {0, DEFAULT_THRESHOLD}

AudioSpecInit ==
    /\ GameInit
    /\ ScoringInit(1)
    /\ threshold \in ThresholdInputs
    /\ min_time_between_claps \in RefractoryInputs
    /\ last_clap_time = 0
    /\ running = FALSE
    /\ clap_count = 0
    /\ clap_timestamps = <<>>
    /\ rising_energy = FALSE
    /\ peak_in_progress = FALSE
    /\ stream = [fed |-> 0, pending |-> FALSE, owed |-> <<>>,
                 inwin |-> FALSE, muted |-> FALSE, called |-> <<>>]
    /\ now = ClockStart
    /\ pc = "idle"
    /\ IoInit(0)
    /\ last = [op |-> "init"]

AudioCallback ==
    \E energy \in EnergyInputs, steps \in 0..2 :
        /\ now + steps * ClockStep <= ClockStart + MaxClockSteps * ClockStep
        /\ stream.fed < MaxSamples
        /\ AudioCallbackAt(energy, now + steps * ClockStep)

AudioNext == AudioStartOk \/ AudioStartFail \/ AudioStop \/ AudioCallback

SpecAudio == AudioSpecInit /\ [][AudioNext]_vars

\* C6: any two registered onsets are more than min_time_between_claps
\* apart, so a rise-and-fall that completes inside the refractory window of
\* a registered onset registers nothing.
C6_Refractory ==
    \A i, j \in 1..Len(clap_timestamps) :
        i < j => clap_timestamps[j] - clap_timestamps[i] > min_time_between_claps

\* Two onsets are registered although a rise-and-fall completed inside the
\* first onset's refractory window.
C6_Witness ==
    /\ Len(clap_timestamps) = 2
    /\ stream.muted
    /\ min_time_between_claps = MIN_TIME_BETWEEN_CLAPS

\* C7: with threshold > 0, every sample below the threshold that comes more
\* than min_time_between_claps after the previous registered onset, while a
\* sample above the threshold that also came after that window is pending
\* (no sample below the threshold in between), registers exactly one onset,
\* timestamped with the falling sample: the registered onsets are exactly
\* the timestamps of those falling samples.
C7_FallingEdge ==
    threshold > 0 => clap_timestamps = stream.owed

\* The second onset has just been registered, at the falling sample.
C7_Witness ==
    /\ threshold > 0
    /\ Len(stream.owed) = 2
    /\ last.op = "audio_callback"
    /\ last.energy < threshold
    /\ stream.owed[2] = last.current_time
    /\ clap_timestamps = stream.owed

\* C22: while Rising (a peak in progress, energy rising) and outside the
\* refractory window, with threshold > 0, a sample with energy below half the
\* threshold returns the detector to Idle without registering an onset.
C22_EarlyReset ==
    [][(/\ last'.op = "audio_callback"
        /\ running
        /\ threshold > 0
        /\ peak_in_progress
        /\ rising_energy
        /\ last'.current_time - last_clap_time > min_time_between_claps
        /\ last'.energy * 2 < threshold) =>
           /\ ~peak_in_progress'
           /\ ~rising_energy'
           /\ clap_count' = clap_count
           /\ clap_timestamps' = clap_timestamps]_vars

\* C23: an audio_callback whose timestamp is within min_time_between_claps
\* of last_clap_time (the difference is <= the period) leaves
\* peak_in_progress, rising_energy, clap_count, clap_timestamps and
\* last_clap_time unchanged and invokes no callback, whatever the energy.
C23_RefractoryFrame ==
    [][(/\ last'.op = "audio_callback"
        /\ last'.current_time - last_clap_time <= min_time_between_claps) =>
           /\ UNCHANGED <<peak_in_progress, rising_energy, clap_count,
                          clap_timestamps, last_clap_time, scores, calls>>
           /\ stream'.called = stream.called]_vars

\* A sample above the threshold has just arrived inside the refractory
\* window of a registered onset, and the running detector is still Idle.
C23_Witness ==
    /\ last.op = "audio_callback"
    /\ running
    /\ clap_count > 0
    /\ last.current_time - last_clap_time <= min_time_between_claps
    /\ last.energy > threshold
    /\ ~peak_in_progress
    /\ ~rising_energy

\* C24: after every audio_callback clap_count is the length of
\* clap_timestamps, clap_timestamps is strictly increasing, last_clap_time is
\* the last recorded timestamp once an onset has been registered, and the
\* registered callback has been invoked once per recorded onset, in order,
\* with that onset's timestamp.
C24_OnsetRecord ==
    /\ clap_count = Len(clap_timestamps)
    /\ \A i \in 1..(Len(clap_timestamps) - 1) :
          clap_timestamps[i] < clap_timestamps[i + 1]
    /\ Len(clap_timestamps) > 0 =>
          last_clap_time = clap_timestamps[Len(clap_timestamps)]
    /\ stream.called = clap_timestamps

\* With no refractory period, a third onset has just been registered and
\* handed to the callback.
C24_Witness ==
    /\ last.op = "audio_callback"
    /\ min_time_between_claps = 0
    /\ clap_count = 3
    /\ last_clap_time = last.current_time
    /\ stream.called[3] = last.current_time

(***************************************************************************)
(* SpecClapStream: a fresh AudioHandler (last_clap_time = 0, threshold     *)
(* 0.1) is started and given the five samples                              *)
(* (0.01, 0), (0.01, 1), (0.5, 2), (0.5, 3), (0.01, 4), for every          *)
(* refractory period that is a multiple of 0.1 s.                          *)
(***************************************************************************)
MaxRefractorySteps == 45

ClapExample ==
    << [energy |-> 10,  t |-> 0],
       [energy |-> 10,  t |-> 1 * TicksPerSecond],
       [energy |-> 500, t |-> 2 * TicksPerSecond],
       [energy |-> 500, t |-> 3 * TicksPerSecond],
       [energy |-> 10,  t |-> 4 * TicksPerSecond] >>

ClapStreamInit ==
    /\ GameInit
    /\ ScoringInit(1)
    /\ threshold = DEFAULT_THRESHOLD
    /\ min_time_between_claps \in {10 * k : k \in 0..MaxRefractorySteps}
    /\ last_clap_time = 0
    /\ running = FALSE
    /\ clap_count = 0
    /\ clap_timestamps = <<>>
    /\ rising_energy = FALSE
    /\ peak_in_progress = FALSE
    /\ stream = [fed |-> 0, pending |-> FALSE, owed |-> <<>>,
                 inwin |-> FALSE, muted |-> FALSE, called |-> <<>>]
    /\ now = 0
    /\ pc = "idle"
    /\ IoInit(0)
    /\ last = [op |-> "init"]

\* The audio subsystem delivers the next sample of the example.
FeedExample ==
    /\ running
    /\ stream.fed < Len(ClapExample)
    /\ AudioCallbackAt(ClapExample[stream.fed + 1].energy,
                       ClapExample[stream.fed + 1].t)

ClapStreamNext == AudioStartOk \/ FeedExample

SpecClapStream == ClapStreamInit /\ [][ClapStreamNext]_vars

\* C5 as stated: after the five samples exactly one onset is registered,
\* timestamped 4 s, for every refractory period <= 4 s.
C5_AsStated ==
    (stream.fed = Len(ClapExample) /\ min_time_between_claps <= 4 * TicksPerSecond)
        => (clap_timestamps = <<4 * TicksPerSecond>> /\ clap_count = 1)

\* C5, amended: after the five samples exactly one onset is registered,
\* timestamped 4 s, for every refractory period < 3 s; for a refractory
\* period of 3 s or more none is registered, the loud samples at 2 s and 3 s
\* being inside the window that last_clap_time = 0 opens.
C5_OneOnset ==
    stream.fed = Len(ClapExample) =>
        IF min_time_between_claps < 3 * TicksPerSecond
        THEN clap_timestamps = <<4 * TicksPerSecond>> /\ clap_count = 1
        ELSE clap_timestamps = <<>> /\ clap_count = 0

\* The five samples have been processed with a refractory period of 2.5 s,
\* which keeps the sample at 2 s inside the window, and the onset at 4 s is
\* registered.
C5_Witness ==
    /\ stream.fed = Len(ClapExample)
    /\ min_time_between_claps = 250
    /\ clap_timestamps = <<4 * TicksPerSecond>>

(***************************************************************************)
(* GameLogic.select_next_song.  The catalog self.songs is the sequence of  *)
(* its tempos in dictionary order; a track's name is its position.         *)
(***************************************************************************)
\* sorted(self.songs.values())
sorted(catalog) == SortSeq(catalog, LAMBDA a, b : a < b)

\* A variant of min() that returns the last element at the smallest
\* distance.
closest_last(bpms, current) ==
    bpms[CHOOSE i \in 1..Len(bpms) :
            /\ \A j \in 1..Len(bpms) :
                  Abs(bpms[j] - current) >= Abs(bpms[i] - current)
            /\ \A j \in (i + 1)..Len(bpms) :
                  Abs(bpms[j] - current) > Abs(bpms[i] - current)]

\* min(bpms, key=lambda x: abs(x - current)): the first element of bpms at
\* the smallest distance from current.
closest(bpms, current) ==
    bpms[CHOOSE i \in 1..Len(bpms) :
            /\ \A j \in 1..Len(bpms) :
                  Abs(bpms[j] - current) >= Abs(bpms[i] - current)
            /\ \A j \in 1..(i - 1) :
                  Abs(bpms[j] - current) > Abs(bpms[i] - current)]

\* bpms.index(value): the first position holding value.
index(bpms, value) ==
    CHOOSE i \in 1..Len(bpms) :
        bpms[i] = value /\ \A j \in 1..(i - 1) : bpms[j] # value

\* `performance > self.score_threshold` mutated to `>=`.
next_bpm_at_threshold(bpms, current_index, performance, limit, current) ==
    IF performance >= limit /\ current_index < Len(bpms)
    THEN bpms[current_index + 1]
    ELSE IF performance < limit /\ current_index > 1
         THEN bpms[current_index - 1]
         ELSE current

\* The three branches that determine next_bpm (positions count from 1).
next_bpm_of(bpms, current_index, performance, limit, current) ==
    IF performance > limit /\ current_index < Len(bpms)
    THEN bpms[current_index + 1]
    ELSE IF performance <= limit /\ current_index > 1
         THEN bpms[current_index - 1]
         ELSE current

\* A variant of select_next_song that stores next_bpm and keeps the track.
select_next_song_keeps_track(catalog, song, bpm, sc, limit) ==
    LET winner == get_winner(sc)
    IN  IF winner = None \/ Len(catalog) = 0
        THEN [song |-> song, bpm |-> bpm, outcome |-> "no_winner"]
        ELSE
            LET bpms == sorted(catalog)
            IN  [song |-> song,
                 bpm |-> next_bpm_of(bpms, index(bpms, closest(bpms, bpm)),
                                     sc[winner].on_beat, limit, bpm),
                 outcome |-> "resolved"]

\* select_next_song as a whole: the new current_song and current_bpm, with
\* the values it computed on the way.  outcome is "no_winner" when
\* get_winner() returns None, "ValueError" when the catalog is empty (min()
\* of an empty list raises), "resolved" when a track with next_bpm was found
\* and "unresolved" when the final loop ended without finding one.
select_next_song(catalog, song, bpm, sc, limit) ==
    LET winner == get_winner(sc)
    IN  IF winner = None
        THEN [song |-> song, bpm |-> bpm, outcome |-> "no_winner"]
        ELSE IF Len(catalog) = 0
        THEN [song |-> song, bpm |-> bpm, outcome |-> "ValueError"]
        ELSE
            LET performance   == sc[winner].on_beat
                bpms          == sorted(catalog)
                current_index == index(bpms, closest(bpms, bpm))
                next_bpm      == next_bpm_of(bpms, current_index, performance,
                                             limit, bpm)
                matches       == {i \in 1..Len(catalog) : catalog[i] = next_bpm}
            IN  IF matches # {}
                THEN LET name == CHOOSE i \in matches :
                                     \A j \in matches : i <= j
                     IN  [song |-> name, bpm |-> catalog[name],
                          outcome |-> "resolved", performance |-> performance,
                          current_index |-> current_index,
                          next_bpm |-> next_bpm]
                ELSE [song |-> song, bpm |-> bpm,
                      outcome |-> "unresolved", performance |-> performance,
                      current_index |-> current_index, next_bpm |-> next_bpm]

(***************************************************************************)
(* SpecSelect: select_next_song applied to every catalog of up to MaxSongs *)
(* tracks, every played track and tempo, and every winner's score.  A      *)
(* played tempo that is not in the catalog is what a second set_songs call *)
(* leaves behind: set_songs keeps current_song and current_bpm when a song *)
(* is already selected.                                                    *)
(***************************************************************************)
MaxSongs  == 4
MaxOnBeat == 6

TempoInputs == {60, 80, 100, 120}
Catalogs    == UNION {[1..n -> TempoInputs] : n \in 0..MaxSongs}

SelectInit ==
    /\ songs \in Catalogs
    /\ current_song \in 1..MaxSongs
    /\ current_bpm \in TempoInputs
    /\ beat_times = <<>>
    /\ is_playing = FALSE
    /\ is_tracking = FALSE
    /\ start_time = 0
    /\ game_duration = DEFAULT_GAME_DURATION
    /\ tolerance = BEAT_TOLERANCE
    /\ score_threshold \in {2, SCORE_THRESHOLD}
    /\ mp_bpm = None
    /\ \E count \in 0..1, on \in 0..MaxOnBeat :
          /\ player_count = count
          /\ scores = [i \in 1..count |-> [claps |-> on, on_beat |-> on]]
          /\ calls = [i \in 1..count |-> [n |-> on, k |-> on]]
          /\ count = 0 => on = 0
    /\ total_beats = 0
    /\ AudioInit
    /\ now = 0
    /\ pc = "idle"
    /\ IoInit(0)
    /\ last = [op |-> "init"]

\* self.select_next_song()
SelectNextSong ==
    LET r == select_next_song(songs, current_song, current_bpm, scores,
                              score_threshold)
    IN  /\ current_song' = r.song
        /\ current_bpm' = r.bpm
        /\ last' = [op |-> "select_next_song", played |-> current_bpm,
                    song |-> current_song, outcome |-> r.outcome,
                    current_index |->
                        IF r.outcome \in {"resolved", "unresolved"}
                        THEN r.current_index ELSE None]
        /\ UNCHANGED <<songs, beat_times, is_playing, is_tracking, start_time,
                       game_duration, tolerance, score_threshold, mp_bpm,
                       scoreVars, audioVars, now, pc, ioVars>>

SelectNext == SelectNextSong

SpecSelect == SelectInit /\ [][SelectNext]_vars

\* The selection ran with a winner on a non-empty catalog.
Selected ==
    /\ last.op = "select_next_song"
    /\ last.outcome \in {"resolved", "unresolved"}

\* The winner's on-beat count: the largest on-beat count on the scoreboard.
WinnerOnBeat ==
    CHOOSE s \in {scores[p].on_beat : p \in 1..player_count} :
        \A p \in 1..player_count : scores[p].on_beat <= s

\* The position, in the sorted tempos, of the tempo closest to the tempo
\* just played (the lowest such position).
PlayedIndex ==
    LET bpms == sorted(songs)
        dist(i) == Abs(bpms[i] - last.played)
    IN  CHOOSE i \in 1..Len(bpms) :
            /\ \A j \in 1..Len(bpms) : dist(i) <= dist(j)
            /\ \A j \in 1..Len(bpms) : dist(j) = dist(i) => i <= j

C33_ClosestIndex ==
    Selected =>
        LET bpms    == sorted(songs)
            i       == last.current_index
            dist(j) == Abs(bpms[j] - last.played)
        IN  /\ i \in 1..Len(bpms)
            /\ \A j \in 1..Len(bpms) : dist(i) <= dist(j)
            /\ \A j \in 1..Len(bpms) : dist(j) = dist(i) => bpms[i] <= bpms[j]
            /\ \A j \in 1..(i - 1) : bpms[j] # bpms[i]
            /\ (\E j \in 1..Len(bpms) : bpms[j] = last.played) =>
                  bpms[i] = last.played

\* The selection ran with the tempo played half way between two catalog
\* tempos and used the position of the lower one; the catalog holds that
\* tempo twice.
C33_Witness ==
    /\ Selected
    /\ last.played = 80
    /\ sorted(songs) = <<60, 60, 100>>
    /\ last.current_index = 1

\* C9 (for a played tempo taken from the catalog): whenever the winner's
\* on-beat count exceeds the threshold and the tempo played is not the
\* highest catalog tempo, the selection sets current_bpm to a strictly
\* higher tempo, also when two tracks of the catalog share a tempo.
C9_StrictlyFaster ==
    (/\ Selected
     /\ WinnerOnBeat > score_threshold
     /\ \E i \in 1..Len(songs) : songs[i] = last.played
     /\ \E i \in 1..Len(songs) : songs[i] > last.played)
        => current_bpm > last.played

\* C10: on a non-empty catalog the selection always resolves its chosen
\* tempo to a catalog track, also when the tempo played equals no catalog
\* entry: afterwards current_bpm is a catalog tempo and current_song is the
\* first track in catalog order with that tempo.
C10_AlwaysResolved ==
    (last.op = "select_next_song" /\ Len(songs) > 0 /\ player_count > 0) =>
        /\ last.outcome = "resolved"
        /\ current_song \in 1..Len(songs)
        /\ songs[current_song] = current_bpm
        /\ \A j \in 1..(current_song - 1) : songs[j] # current_bpm

(***************************************************************************)
(* The session controller: GameLogic.set_songs, start_game,                *)
(* start_tracking, update and end_game, with KeyboardHandler.check_inputs. *)
(***************************************************************************)
\* GameLogic.set_songs: the current song and tempo after the call.
set_songs(catalog, song, bpm) ==
    IF song = None /\ Len(catalog) > 0
    THEN [song |-> 1, bpm |-> catalog[1]]
    ELSE [song |-> song, bpm |-> bpm]

\* A variant of the debounce that lets a press through exactly 0.2 s after
\* the last one.
check_inputs_inclusive(pressed, current_time) ==
    IF ~kb_is_tracking THEN {}
    ELSE {p \in DOMAIN last_press_time :
             p \in pressed /\ current_time - last_press_time[p] >= 20}

\* KeyboardHandler.check_inputs at clock value current_time with the keys of
\* the players in `pressed` held down: the players that clapped (each with
\* clap time current_time); the debounce is the literal 0.2 s of the source.
check_inputs(pressed, current_time) ==
    IF ~kb_is_tracking THEN {}
    ELSE {p \in DOMAIN last_press_time :
             p \in pressed /\ current_time - last_press_time[p] > 20}

\* The scoreboard after update() has registered the claps of `players`, in
\* the order of player_keys, each judged by is_on_beat(clap_time).
RECURSIVE register_claps(_, _, _, _)
register_claps(sc, players, i, clap_time) ==
    IF i > Len(last_press_time) THEN sc
    ELSE register_claps(
             IF i \in players
             THEN register_clap(sc, i,
                                is_on_beat(clap_time, beat_times, tolerance))
             ELSE sc,
             players, i + 1, clap_time)

\* A variant of the beat check without `beat_time > self.start_time`.
current_beats_from_start(current_time) ==
    {i \in 1..Len(beat_times) :
        RatLt(RatAbs(RatSub(RatOfInt(current_time), beat_times[i])),
              RatOfInt(1))}

\* update()'s beat check: the beats of the timeline within 0.01 s of
\* current_time that lie after start_time.
current_beats(current_time) ==
    {i \in 1..Len(beat_times) :
        /\ RatLt(RatAbs(RatSub(RatOfInt(current_time), beat_times[i])),
                 RatOfInt(1))
        /\ RatLt(RatOfInt(start_time), beat_times[i])}

\* A variant of update()'s test that ends the session as soon as the
\* duration is reached.
game_should_end_at_duration(current_time) ==
    is_tracking /\ current_time - start_time >= game_duration

\* A variant of update()'s test with the subtraction reversed.
game_should_end_reversed(current_time) ==
    is_tracking /\ start_time - current_time > game_duration

\* update(): "Check if game should end".
game_should_end(current_time) ==
    is_tracking /\ current_time - start_time > game_duration

\* A variant of end_game that clears is_playing and forgets is_tracking.
EndGameKeepsTracking(sc) ==
    LET r == select_next_song(songs, current_song, current_bpm, sc,
                              score_threshold)
    IN  /\ is_playing' = FALSE
        /\ is_tracking' = is_tracking
        /\ mp_playing' = FALSE
        /\ kb_is_tracking' = FALSE
        /\ current_song' = r.song
        /\ current_bpm' = r.bpm
        /\ ended' = ended + 1

\* GameLogic.end_game past its `if not self.is_playing: return`, with the
\* scoreboard sc: both flags cleared, playback and keyboard tracking stopped,
\* and select_next_song().
EndGameWith(sc) ==
    LET r == select_next_song(songs, current_song, current_bpm, sc,
                              score_threshold)
    IN  /\ is_playing' = FALSE
        /\ is_tracking' = FALSE
        /\ mp_playing' = FALSE
        /\ kb_is_tracking' = FALSE
        /\ current_song' = r.song
        /\ current_bpm' = r.bpm
        /\ ended' = ended + 1

\* Bounds and inputs of the session specification Spec (below).
MaxGameSongs   == 1
MaxGamePlayers == 1
MaxGameSeconds == 4
MaxGameSamples == 3

GameTempos        == {-60, 0, 60}
GameCatalogs      == UNION {[1..n -> GameTempos] : n \in 0..MaxGameSongs}
GameDurations     == {2 * TicksPerSecond}
GameCountdowns    == {1 * TicksPerSecond}
GameThresholds    == {1}
TickInputs        == {100}
GameEnergyInputs  == {10, 500}
GameEnd           == ClockStart + MaxGameSeconds * TicksPerSecond

\* A variant of start_game() that marks the session playing before it knows
\* that the song loaded.
StartGamePlaysFirst ==
    /\ pc = "idle"
    /\ \E load_ok \in BOOLEAN :
          IF current_song = None
          THEN /\ last' = [op |-> "start_game", result |-> FALSE,
                           why |-> "No song selected."]
               /\ UNCHANGED <<gameVars, ioVars, pc>>
          ELSE IF ~load_ok
          THEN /\ mp_bpm' = current_bpm
               /\ is_playing' = TRUE
               /\ last' = [op |-> "start_game", result |-> FALSE,
                           why |-> "Failed to load song."]
               /\ UNCHANGED <<songs, current_song, current_bpm, beat_times,
                              is_tracking, start_time, game_duration,
                              tolerance, score_threshold, ioVars, pc>>
          ELSE /\ mp_bpm' = current_bpm
               /\ mp_playing' = TRUE
               /\ is_playing' = TRUE
               /\ pc' = "countdown"
               /\ ended' = 0
               /\ last' = [op |-> "load_song", result |-> TRUE]
               /\ UNCHANGED <<songs, current_song, current_bpm, beat_times,
                              is_tracking, start_time, game_duration,
                              tolerance, score_threshold, input_mode, ui,
                              cb,
                              countdown, kb_is_tracking, last_press_time,
                              player_claps>>
    /\ UNCHANGED <<scoreVars, audioVars, now>>

\* start_game(): no song selected, or load_song fails (it has stored the
\* tempo by then), or the song loads and plays and the countdown sleep
\* begins.
StartGame ==
    /\ pc = "idle"
    /\ \E load_ok \in BOOLEAN :
          IF current_song = None
          THEN /\ last' = [op |-> "start_game", result |-> FALSE,
                           why |-> "No song selected."]
               /\ UNCHANGED <<gameVars, ioVars, pc>>
          ELSE IF ~load_ok
          THEN /\ mp_bpm' = current_bpm
               /\ last' = [op |-> "start_game", result |-> FALSE,
                           why |-> "Failed to load song."]
               /\ UNCHANGED <<songs, current_song, current_bpm, beat_times,
                              is_playing, is_tracking, start_time,
                              game_duration, tolerance, score_threshold,
                              ioVars, pc>>
          ELSE /\ mp_bpm' = current_bpm
               /\ mp_playing' = TRUE
               /\ is_playing' = TRUE
               /\ pc' = "countdown"
               /\ ended' = 0
               /\ last' = [op |-> "load_song", result |-> TRUE]
               /\ UNCHANGED <<songs, current_song, current_bpm, beat_times,
                              is_tracking, start_time, game_duration,
                              tolerance, score_threshold, input_mode, ui,
                              cb,
                              countdown, kb_is_tracking, last_press_time,
                              player_claps>>
    /\ UNCHANGED <<scoreVars, audioVars, now>>

\* The countdown sleep of start_game() ends and start_tracking() runs; in
\* audio mode a detector that is not running is started, which may fail.
StartTracking ==
    /\ pc = "countdown"
    /\ \E late \in 0..1, audio_ok \in BOOLEAN :
          /\ now + countdown + late <= GameEnd
          /\ now' = now + countdown + late
          /\ start_time' = now'
          /\ is_tracking' = TRUE
          /\ beat_times' = get_beat_times(mp_bpm, now', game_duration)
          /\ scores' = reset_scores(player_count)
          /\ total_beats' = 0
          /\ calls' = [i \in 1..player_count |-> [n |-> 0, k |-> 0]]
          /\ kb_is_tracking' = IF input_mode = "keyboard" THEN TRUE
                               ELSE kb_is_tracking
          /\ player_claps' = IF input_mode = "keyboard"
                             THEN [p \in DOMAIN player_claps |-> <<>>]
                             ELSE player_claps
          /\ running' = IF input_mode = "audio" /\ ~running THEN audio_ok
                        ELSE running
          /\ input_mode = "keyboard" => audio_ok
          /\ running => audio_ok
    /\ pc' = "idle"
    /\ last' = [op |-> "start_game", result |-> TRUE]
    /\ UNCHANGED <<songs, current_song, current_bpm, is_playing,
                   game_duration, tolerance, score_threshold, mp_bpm,
                   player_count, threshold, min_time_between_claps,
                   last_clap_time, clap_count, clap_timestamps, rising_energy,
                   peak_in_progress, stream, input_mode, ui, cb,
                   countdown,
                   mp_playing, last_press_time, ended>>

(***************************************************************************)
(* Spec: one GameLogic as a front end builds it (initialize_game in        *)
(* main.py and main_ui.py: the handlers, Scoring, set_songs and            *)
(* set_game_settings), then driven by start_game, update and end_game      *)
(* while the audio subsystem delivers buffers.                             *)
(***************************************************************************)
GameSpecInit ==
    /\ \E catalog \in GameCatalogs :
          /\ songs = catalog
          /\ current_song = set_songs(catalog, None, None).song
          /\ current_bpm = set_songs(catalog, None, None).bpm
    /\ beat_times = <<>>
    /\ is_playing = FALSE
    /\ is_tracking = FALSE
    /\ start_time = 0
    /\ game_duration \in GameDurations
    /\ countdown \in GameCountdowns
    /\ tolerance = BEAT_TOLERANCE
    /\ score_threshold \in GameThresholds
    /\ mp_bpm = None
    /\ mp_playing = FALSE
    /\ \E mode \in {"keyboard", "audio"}, count \in 1..MaxGamePlayers :
          /\ input_mode = mode
          /\ mode = "audio" => count = 1
          /\ ScoringInit(count)
          /\ last_press_time =
                IF mode = "keyboard" THEN [i \in 1..count |-> 0] ELSE <<>>
          /\ player_claps =
                IF mode = "keyboard" THEN [i \in 1..count |-> <<>>] ELSE <<>>
    /\ kb_is_tracking = FALSE
    /\ ended = 0
    /\ ui = UiInit
    /\ cb = CbIdle
    /\ AudioInit
    /\ now = ClockStart
    /\ pc = "idle"
    /\ last = [op |-> "init"]

\* A variant of update() that polls the keyboard handler in every mode.
keyboard_polled_any(mode) ==
    is_tracking

\* update(): check_inputs() is called while tracking in keyboard mode only.
keyboard_polled(mode) ==
    is_tracking /\ mode = "keyboard"

\* update(): one tick of the tracking loop.  dt is the clock's advance since
\* the last call's time.time(), late the advance between this call's
\* time.time() and the one in check_inputs (less than any dt, so the next
\* call's read is no earlier), pressed the players whose key is down, esc
\* the state of the stop key.  The record of the call keeps whether
\* check_inputs was called and the clap time it returned, if it returned any.
UpdateAt(dt, late, esc, pressed) ==
    IF ~is_playing
    THEN /\ last' = [op |-> "update", result |-> TRUE,
                     was_playing |-> FALSE, was_tracking |-> is_tracking,
                     polled |-> FALSE, clap_time |-> None]
         /\ UNCHANGED <<gameVars, scoreVars, input_mode, countdown,
                        mp_playing, kb_is_tracking, last_press_time,
                        player_claps, ended, now>>
    ELSE
      LET current_time == now + dt
          kb_time      == current_time + late
          polled       == keyboard_polled(input_mode)
          clapped      == IF polled THEN check_inputs(pressed, kb_time)
                          ELSE {}
          sc           == register_claps(scores, clapped, 1, kb_time)
          beats        == IF is_tracking
                          THEN Cardinality(current_beats(current_time))
                          ELSE 0
      IN  /\ IF game_should_end(current_time)
             THEN /\ now' = current_time
                  /\ EndGameWith(scores)
                  /\ last' = [op |-> "update", result |-> FALSE,
                              was_playing |-> TRUE,
                              was_tracking |-> TRUE,
                              current_time |-> current_time,
                              esc |-> FALSE, polled |-> FALSE,
                              clap_time |-> None]
                  /\ UNCHANGED <<scoreVars, last_press_time,
                                 player_claps>>
             ELSE /\ now' = current_time
                  /\ scores' = sc
                  /\ calls' =
                        [p \in DOMAIN calls |->
                            IF p \in clapped
                            THEN [n |-> calls[p].n + 1,
                                  k |-> IF is_on_beat(kb_time, beat_times,
                                                      tolerance)
                                        THEN calls[p].k + 1
                                        ELSE calls[p].k]
                            ELSE calls[p]]
                  /\ total_beats' = total_beats + beats
                  /\ last_press_time' =
                        [p \in DOMAIN last_press_time |->
                            IF p \in clapped THEN kb_time
                            ELSE last_press_time[p]]
                  /\ player_claps' =
                        [p \in DOMAIN player_claps |->
                            IF p \in clapped
                            THEN Append(player_claps[p], kb_time)
                            ELSE player_claps[p]]
                  /\ last' = [op |-> "update", result |-> ~esc,
                              was_playing |-> TRUE,
                              was_tracking |-> is_tracking,
                              current_time |-> current_time,
                              esc |-> esc, polled |-> polled,
                              clap_time |-> IF clapped = {} THEN None
                                            ELSE kb_time]
                  /\ IF esc
                     THEN EndGameWith(sc)
                     ELSE UNCHANGED <<is_playing, is_tracking, mp_playing,
                                      kb_is_tracking, current_song,
                                      current_bpm, ended>>
                  /\ UNCHANGED player_count
          /\ UNCHANGED <<songs, beat_times, start_time, game_duration,
                         tolerance, score_threshold, mp_bpm, input_mode,
                         countdown>>

\* update() called by the front end's loop, one tick after the last.
Update ==
    /\ pc = "idle"
    /\ \E dt \in TickInputs, late \in 0..1, esc \in BOOLEAN,
          pressed \in SUBSET (DOMAIN last_press_time) :
          /\ is_playing => now + dt + late <= GameEnd
          /\ UpdateAt(dt, late, esc, pressed)
    /\ UNCHANGED <<audioVars, ui, cb, pc>>

\* A variant of end_game() without the `if not self.is_playing: return`.
EndGameUnguarded ==
    /\ pc = "idle"
    /\ EndGameWith(scores)
    /\ last' = [op |-> "end_game", was_playing |-> is_playing]
    /\ UNCHANGED <<songs, beat_times, start_time, game_duration, tolerance,
                   score_threshold, mp_bpm, input_mode, ui, cb,
                   countdown,
                   last_press_time, player_claps, scoreVars, audioVars, now,
                   pc>>

\* end_game() called by the front end.
EndGame ==
    /\ pc = "idle"
    /\ IF is_playing
       THEN /\ EndGameWith(scores)
            /\ UNCHANGED <<songs, beat_times, start_time, game_duration,
                           tolerance, score_threshold, mp_bpm,
                           input_mode, ui, cb,
                           countdown, last_press_time, player_claps>>
       ELSE UNCHANGED <<gameVars, ioVars>>
    /\ last' = [op |-> "end_game", was_playing |-> is_playing]
    /\ UNCHANGED <<scoreVars, audioVars, now, pc>>

\* The audio subsystem delivers a buffer to the open stream.
GameAudioCallback ==
    /\ running
    /\ stream.fed < MaxGameSamples
    /\ \E energy \in GameEnergyInputs, dt \in TickInputs :
          /\ now + dt <= GameEnd
          /\ AudioCallbackAt(energy, now + dt)

\* The front end starts the detector in audio mode (main.py before
\* start_game, main_ui.py in initialize_game) and stops it on leaving.
GameAudioStart ==
    input_mode = "audio" /\ pc = "idle" /\ (AudioStartOk \/ AudioStartFail)

GameAudioStop ==
    input_mode = "audio" /\ pc = "idle" /\ AudioStop

Next ==
    \/ StartGame
    \/ StartTracking
    \/ Update
    \/ EndGame
    \/ GameAudioCallback
    \/ GameAudioStart
    \/ GameAudioStop

Spec == GameSpecInit /\ [][Next]_vars

\* C2: generating a beat timeline with bpm <= 0 fails with InvalidTempo and
\* the caller does not proceed into the Tracking phase: start_game never
\* returns True with is_tracking set while the loaded tempo is zero or
\* negative.
C2_InvalidTempo ==
    ~(/\ last.op = "start_game"
      /\ last.result
      /\ is_tracking
      /\ mp_bpm # None
      /\ mp_bpm <= 0)

\* The session phase read off the two flags of GameLogic.
Phase ==
    IF ~is_playing THEN "Idle"
    ELSE IF is_tracking THEN "Tracking" ELSE "CountingDown"

\* C11: is_tracking implies is_playing in every reachable state; the phase
\* changes only Idle -> CountingDown, CountingDown -> Tracking and
\* Tracking -> Idle; and every step out of Tracking has run end_game's
\* finalization once, leaving the song that select_next_song chooses for the
\* final scoreboard.
C11_PhaseOrder ==
    /\ [](is_tracking => is_playing)
    /\ [][/\ Phase' # Phase =>
                <<Phase, Phase'>> \in {<<"Idle", "CountingDown">>,
                                       <<"CountingDown", "Tracking">>,
                                       <<"Tracking", "Idle">>}
          /\ (Phase = "Tracking" /\ Phase' # "Tracking") =>
                /\ ended' = ended + 1
                /\ <<current_song', current_bpm'>> =
                      LET r == select_next_song(songs, current_song,
                                                current_bpm, scores',
                                                score_threshold)
                      IN  <<r.song, r.bpm>>]_vars

\* A session has gone Idle -> CountingDown -> Tracking and an update() that
\* met it Tracking has ended it.
C11_Witness ==
    /\ last.op = "update"
    /\ last.was_tracking
    /\ ~last.result
    /\ Phase = "Idle"
    /\ ended = 1

\* C12: an update() call that meets the session Tracking ends it (both flags
\* false, the call returns False) if and only if at that call
\* current_time - start_time > game_duration or the stop key is pressed;
\* otherwise the session stays Tracking and the call returns True.
C12_UpdateEnds ==
    (last.op = "update" /\ last.was_playing /\ last.was_tracking) =>
        /\ ~last.result <=>
              \/ last.current_time - start_time > game_duration
              \/ last.esc
        /\ ~last.result => (~is_playing /\ ~is_tracking)
        /\ last.result => (is_playing /\ is_tracking)

\* An update() call met the session Tracking past its duration, with the
\* stop key up, and ended it.
C12_Witness ==
    /\ last.op = "update"
    /\ last.was_tracking
    /\ ~last.esc
    /\ last.current_time - start_time > game_duration
    /\ ~last.result
    /\ ~is_playing

\* C13: per session finalization happens exactly once: end_game goes past
\* its is_playing test at most once between two starts, a session that was
\* tracked and is no longer playing has been finalized once however many
\* end_game calls followed, and an end_game call on a session that is not
\* playing changes nothing.
C13_FinalizedOnce ==
    /\ [](ended <= 1)
    /\ []((start_time # 0 /\ ~is_playing) => (ended = 1 /\ ~mp_playing
                                                /\ ~kb_is_tracking))
    /\ [][(last'.op = "end_game" /\ ~is_playing) =>
             UNCHANGED <<gameVars, scoreVars, audioVars, ioVars, now, pc>>]_vars

\* end_game was called again on a session that had been tracked and was
\* already finalized.
C13_Witness ==
    /\ last.op = "end_game"
    /\ ~last.was_playing
    /\ start_time # 0
    /\ ended = 1

\* C14: update() returns False when the game has ended and does not report
\* a running game before any session was started: every update() call that
\* meets a session that is not playing returns False.
C14_UpdateReportsEnded ==
    (last.op = "update" /\ ~last.was_playing) => ~last.result

(***************************************************************************)
(* SpecKeyboard: a KeyboardHandler polled at ticks of 0.10 s or 0.11 s     *)
(* while any subset of the players' keys is held down.                     *)
(***************************************************************************)
MaxKeyPlayers == 2
MaxKeySteps   == 5

KeyTickInputs == {10, 11}
KeyEnd        == ClockStart + MaxKeySteps * 10

KeyboardInit ==
    /\ GameInit
    /\ ScoringInit(0)
    /\ AudioInit
    /\ \E count \in 0..MaxKeyPlayers : IoInit(count)
    /\ now = ClockStart
    /\ pc = "idle"
    /\ last = [op |-> "init"]

\* keyboard_handler.start_tracking()
KeyboardStartTracking ==
    /\ kb_is_tracking' = TRUE
    /\ player_claps' = [p \in DOMAIN player_claps |-> <<>>]
    /\ last' = [op |-> "start_tracking"]
    /\ UNCHANGED <<gameVars, scoreVars, audioVars, input_mode, ui, cb,
                   countdown,
                   mp_playing, last_press_time, ended, now, pc>>

\* keyboard_handler.stop_tracking()
KeyboardStopTracking ==
    /\ kb_is_tracking' = FALSE
    /\ last' = [op |-> "stop_tracking"]
    /\ UNCHANGED <<gameVars, scoreVars, audioVars, input_mode, ui, cb,
                   countdown,
                   mp_playing, last_press_time, player_claps, ended, now, pc>>

\* keyboard_handler.check_inputs() at the next tick, with the keys of the
\* players in `pressed` down.
CheckInputs ==
    \E dt \in KeyTickInputs, pressed \in SUBSET (DOMAIN last_press_time) :
        LET current_time == now + dt
            claps        == check_inputs(pressed, current_time)
        IN  /\ current_time <= KeyEnd
            /\ now' = current_time
            /\ last_press_time' =
                  [p \in DOMAIN last_press_time |->
                      IF p \in claps THEN current_time
                      ELSE last_press_time[p]]
            /\ player_claps' =
                  [p \in DOMAIN player_claps |->
                      IF p \in claps THEN Append(player_claps[p], current_time)
                      ELSE player_claps[p]]
            /\ last' = [op |-> "check_inputs", pressed |-> pressed,
                        claps |-> claps, current_time |-> current_time]
            /\ UNCHANGED <<gameVars, scoreVars, audioVars, input_mode,
                           ui, cb,
                           countdown, mp_playing, kb_is_tracking, ended, pc>>

KeyboardNext == KeyboardStartTracking \/ KeyboardStopTracking \/ CheckInputs

SpecKeyboard == KeyboardInit /\ [][KeyboardNext]_vars

\* C16: for each participant the events check_inputs has emitted are more
\* than 0.2 s apart and the last of them is the participant's last-press
\* time; one check_inputs call emits at most one event per participant, more
\* than 0.2 s after that participant's last press; and a participant whose
\* key is not down keeps its last-press time and its events.
C16_Debounce ==
    /\ [](\A p \in DOMAIN player_claps :
             /\ \A i \in 1..(Len(player_claps[p]) - 1) :
                   player_claps[p][i + 1] - player_claps[p][i] > 20
             /\ Len(player_claps[p]) > 0 =>
                   player_claps[p][Len(player_claps[p])] = last_press_time[p])
    /\ [][last'.op = "check_inputs" =>
             \A p \in DOMAIN player_claps :
                /\ \/ /\ player_claps'[p] = player_claps[p]
                      /\ last_press_time'[p] = last_press_time[p]
                   \/ /\ player_claps'[p] =
                            Append(player_claps[p], last'.current_time)
                      /\ last_press_time'[p] = last'.current_time
                      /\ last'.current_time - last_press_time[p] > 20
                /\ p \notin last'.pressed =>
                      /\ player_claps'[p] = player_claps[p]
                      /\ last_press_time'[p] = last_press_time[p]]_vars

\* Participant 1 holds its key down: it has two events on record, and at the
\* last poll, inside its debounce window, its key gave no event while
\* participant 2's key did.
C16_Witness ==
    /\ last.op = "check_inputs"
    /\ last.pressed = {1, 2}
    /\ last.claps = {2}
    /\ Len(player_claps[1]) = 2

(***************************************************************************)
(* AudioHandler.calibrate.                                                 *)
(***************************************************************************)
\* The integer square root of v, sought between lo and hi.
RECURSIVE isqrt_between(_, _, _)
isqrt_between(v, lo, hi) ==
    IF lo >= hi THEN lo
    ELSE LET mid == (lo + hi + 1) \div 2
         IN  IF mid * mid <= v THEN isqrt_between(v, mid, hi)
             ELSE isqrt_between(v, lo, mid - 1)

RECURSIVE SumSeq(_, _)
SumSeq(q, i) == IF i > Len(q) THEN 0 ELSE q[i] + SumSeq(q, i + 1)

\* np.mean(energy_values) + 8 * np.std(energy_values) for a non-empty list,
\* rounded down to the energy unit: with n values of sum S,
\* mean + 8 * std = (S + sqrt(64 * sum((n * x - S) ^ 2) / n)) / n.
ambient_threshold(energy_values) ==
    LET n == Len(energy_values)
        S == SumSeq(energy_values, 1)
        Q == SumSeq([i \in 1..n |-> (n * energy_values[i] - S)
                                    * (n * energy_values[i] - S)], 1)
        v == (64 * Q) \div n
    IN  (S + isqrt_between(v, 0, v)) \div n

\* A variant of calibrate that falls back to the default threshold when no
\* sample was collected.
calibrate_to_default(th, energy_values) ==
    IF Len(energy_values) > 0 THEN ambient_threshold(energy_values)
    ELSE DEFAULT_THRESHOLD

\* calibrate(): the threshold after the sampling, from the threshold before
\* and the energies collected.
calibrate(th, energy_values) ==
    IF Len(energy_values) > 0 THEN ambient_threshold(energy_values) ELSE th

(***************************************************************************)
(* SpecCalibrate: the detector started, stopped and fed buffers, with      *)
(* calibrate() called at any moment for any short list of ambient          *)
(* energies.                                                               *)
(***************************************************************************)
MaxAmbientSamples == 2

AmbientInputs == {10, 30}
AmbientLists  == UNION {[1..n -> AmbientInputs] : n \in 0..MaxAmbientSamples}
CalibrationDurations == {0, ClockStep}

\* calibrate(duration): the temporary stream cannot be opened and the
\* exception leaves calibrate, or it is sampled for `duration` and the
\* threshold set from the energies collected, if any.
Calibrate ==
    /\ \E opened \in BOOLEAN, duration \in CalibrationDurations,
          energy_values \in AmbientLists :
          /\ now + duration <= ClockStart + MaxClockSteps * ClockStep
          /\ ~opened => (duration = 0 /\ energy_values = <<>>)
          /\ now' = now + duration
          /\ threshold' = IF opened THEN calibrate(threshold, energy_values)
                          ELSE threshold
          /\ last' = [op |-> "calibrate", before |-> threshold,
                      energy_values |-> energy_values,
                      outcome |-> IF ~opened THEN "raised"
                                  ELSE IF Len(energy_values) > 0
                                  THEN "complete"
                                  ELSE "failed"]
    /\ UNCHANGED <<min_time_between_claps, last_clap_time, running,
                   clap_count, clap_timestamps, rising_energy,
                   peak_in_progress, stream, gameVars, scoreVars, pc, ioVars>>

\* The audio subsystem delivers the next buffer, quiet or loud, one clock
\* step after the last event.
AmbientCallback ==
    \E energy \in {10, 70} :
        /\ now + ClockStep <= ClockStart + MaxClockSteps * ClockStep
        /\ stream.fed < MaxSamples
        /\ AudioCallbackAt(energy, now + ClockStep)

CalibrateNext ==
    AudioStartOk \/ AudioStartFail \/ AudioStop \/ AmbientCallback \/ Calibrate

SpecCalibrate == AudioSpecInit /\ [][CalibrateNext]_vars

\* C17: when calibrate collects no energy sample the threshold keeps the
\* value it had before the call and the call reports "Calibration failed";
\* and no calibrate call changes running, last_clap_time, clap_count,
\* clap_timestamps, the rising and peak flags or the refractory period.
C17_Calibrate ==
    /\ []((last.op = "calibrate" /\ last.outcome # "raised"
                                 /\ last.energy_values = <<>>) =>
             (threshold = last.before /\ last.outcome = "failed"))
    /\ [][last'.op = "calibrate" =>
             UNCHANGED <<running, last_clap_time, clap_count, clap_timestamps,
                         rising_energy, peak_in_progress,
                         min_time_between_claps>>]_vars

\* calibrate collected nothing on a running detector that had registered an
\* onset and whose threshold, 0.03 from an earlier calibration, was not the
\* default: the threshold is still 0.03.
C17_Witness ==
    /\ last.op = "calibrate"
    /\ last.outcome = "failed"
    /\ last.before = 30
    /\ threshold = 30
    /\ running
    /\ clap_count > 0

\* C18: when start() fails the detector is left with running = False, and an
\* audio_callback that meets running = False registers no onset, invokes no
\* callback and changes no detector state.
C18_FailedStartInert ==
    /\ []((last.op = "audio_start" /\ ~last.ok) => ~running)
    /\ [][(last'.op = "audio_callback" /\ ~running) =>
             UNCHANGED <<audioVars, scoreVars>>]_vars

\* A restart failed on a detector that an earlier start and stop had left
\* with an onset on record.
C18_Witness ==
    /\ last.op = "audio_start"
    /\ ~last.ok
    /\ ~running
    /\ clap_count > 0

\* C19: a start_game that fails, because no song is selected or because the
\* load fails, returns False and changes neither is_playing nor is_tracking
\* (an Idle session stays Idle), nor the scores, total_beats, the timeline
\* and its start time, nor starts keyboard tracking or the detector.
C19_FailedStart ==
    [][(last'.op = "start_game" /\ ~last'.result) =>
          /\ UNCHANGED <<is_playing, is_tracking, scores, total_beats,
                         beat_times, start_time, kb_is_tracking, player_claps,
                         running, ended>>
          /\ Phase = "Idle" => Phase' = "Idle"
          /\ last'.why = "No song selected." <=> current_song = None]_vars

\* The load failed on a start_game that followed a finalized session with a
\* clap on its scoreboard and a timeline: the session is Idle and both are
\* still there.
C19_Witness ==
    /\ last.op = "start_game"
    /\ ~last.result
    /\ last.why = "Failed to load song."
    /\ Phase = "Idle"
    /\ ended = 1
    /\ Len(beat_times) > 0
    /\ \E p \in DOMAIN scores : scores[p].claps > 0

\* C20: in audio mode, when the detector cannot be started as the session
\* starts, the session does not stay in Tracking: after a start_game that
\* left the detector not running, is_tracking is false.
C20_NoInputFallback ==
    (/\ last.op = "start_game"
     /\ last.result
     /\ input_mode = "audio"
     /\ ~running) => ~is_tracking

\* C31: only one input mode feeds the scorer in a session.  In a keyboard
\* session the placeholder detector is never running, its callback is never
\* invoked and every change of a score is made by update() or by the reset
\* of start_tracking; in an audio session the keyboard handler is never in
\* tracking, no update() polls it or returns a key press, and every change
\* of a score is made by an audio callback or by the reset.
C31_OneMode ==
    /\ [](input_mode = "keyboard" =>
            /\ ~running
            /\ clap_count = 0
            /\ stream.called = <<>>)
    /\ [](input_mode = "audio" =>
            /\ ~kb_is_tracking
            /\ last.op = "update" =>
                  (~last.polled /\ last.clap_time = None))
    /\ [][scores' # scores =>
            last'.op \in (IF input_mode = "keyboard"
                          THEN {"start_game", "update"}
                          ELSE {"start_game", "audio_callback"})]_vars

\* An audio session in which an onset has been scored and update() has then
\* run while tracking is reached.
C31_Witness ==
    /\ input_mode = "audio"
    /\ is_tracking
    /\ running
    /\ scores[1].claps = 1
    /\ last.op = "update"
    /\ last.was_tracking

\* C28: within one update() tick the timestamp given to a keyboard input
\* event is the value the tick captured for its end-of-session check and its
\* beat check, so no keyboard event with a timestamp later than
\* start_time + game_duration is scored.
C28_SingleNow ==
    (last.op = "update" /\ last.was_tracking /\ last.clap_time # None) =>
        /\ last.clap_time = last.current_time
        /\ last.clap_time <= start_time + game_duration

\* C30: in acoustic mode the scoreboard has the one participant 1; every
\* onset the detector registers while the session is Tracking gives exactly
\* one register_clap call, for participant 1; and an onset registered while
\* the session is not Tracking gives none.
C30_SingleParticipant ==
    /\ [](input_mode = "audio" => (player_count = 1 /\ DOMAIN scores = {1}))
    /\ [][(/\ input_mode = "audio"
            /\ Len(clap_timestamps') = Len(clap_timestamps) + 1) =>
              IF is_tracking
              THEN /\ calls'[1].n = calls[1].n + 1
                   /\ scores'[1].claps = scores[1].claps + 1
              ELSE UNCHANGED <<scores, calls>>]_vars

\* In acoustic mode the detector has just registered an onset while the
\* session was Tracking, and participant 1 has its first clap.
C30_Witness ==
    /\ input_mode = "audio"
    /\ last.op = "audio_callback"
    /\ is_tracking
    /\ clap_count = 1
    /\ last_clap_time = last.current_time
    /\ scores[1].claps = 1

(***************************************************************************)
(* SpecTicks: one session on the 140 bpm track ("Beat It"), whose beat     *)
(* interval 6/7 s is not a whole number of clock ticks, with update()      *)
(* called at ticks 0.01 s or 0.84 s apart and no key pressed.              *)
(***************************************************************************)
MaxTickSeconds == 3

FineTickInputs == {1, 84}
TickEnd        == ClockStart + MaxTickSeconds * TicksPerSecond

TickSpecInit ==
    /\ songs = <<140>>
    /\ current_song = set_songs(<<140>>, None, None).song
    /\ current_bpm = set_songs(<<140>>, None, None).bpm
    /\ beat_times = <<>>
    /\ is_playing = FALSE
    /\ is_tracking = FALSE
    /\ start_time = 0
    /\ game_duration = 180
    /\ countdown = 1 * TicksPerSecond
    /\ tolerance = BEAT_TOLERANCE
    /\ score_threshold = SCORE_THRESHOLD
    /\ mp_bpm = None
    /\ mp_playing = FALSE
    /\ input_mode = "keyboard"
    /\ ScoringInit(1)
    /\ last_press_time = [i \in 1..1 |-> 0]
    /\ player_claps = [i \in 1..1 |-> <<>>]
    /\ kb_is_tracking = FALSE
    /\ ended = 0
    /\ ui = UiInit
    /\ cb = CbIdle
    /\ AudioInit
    /\ now = ClockStart
    /\ pc = "idle"
    /\ last = [op |-> "init"]

\* update() at the next tick of the front end's loop.
TickUpdate ==
    /\ pc = "idle"
    /\ \E dt \in FineTickInputs, esc \in BOOLEAN :
          /\ is_playing => now + dt <= TickEnd
          /\ UpdateAt(dt, 0, esc, {})
    /\ UNCHANGED <<audioVars, ui, cb, pc>>

TickNext == StartGame \/ StartTracking \/ TickUpdate \/ EndGame

SpecTicks == TickSpecInit /\ [][TickNext]_vars

\* The beats of the session's timeline whose time has been reached, a beat
\* being taken as reached as soon as the clock is within 0.01 s of it.
beats_reached ==
    {i \in 1..Len(beat_times) : RatLt(beat_times[i], RatOfInt(now + 1))}

\* C27: the beat tally counts each ideal beat at most once: whatever the
\* spacing of the update() calls of a tracking session, total_beats never
\* exceeds the number of beats of the session's timeline whose time has been
\* reached.
C27_BeatTally ==
    is_tracking => total_beats <= Cardinality(beats_reached)

(***************************************************************************)
(* SpecBeats: the session of SpecTicks with update() called at ticks at    *)
(* least 0.02 s apart (0.02 s or 0.84 s); the first call of a session may  *)
(* read the same clock value as start_tracking did.                        *)
(***************************************************************************)
CoarseTickInputs == {2, 84}

\* update() at the next tick of the front end's loop.
CoarseUpdate ==
    /\ pc = "idle"
    /\ \E dt \in CoarseTickInputs \cup {0}, esc \in BOOLEAN :
          /\ dt = 0 => last = [op |-> "start_game", result |-> TRUE]
          /\ is_playing => now + dt <= TickEnd
          /\ UpdateAt(dt, 0, esc, {})
    /\ UNCHANGED <<audioVars, ui, cb, pc>>

BeatsNext == StartGame \/ StartTracking \/ CoarseUpdate \/ EndGame

SpecBeats == TickSpecInit /\ [][BeatsNext]_vars

\* The beats of the timeline strictly after start_time whose time has been
\* reached.
beats_after_start ==
    {i \in beats_reached : RatLt(RatOfInt(start_time), beat_times[i])}

\* C39: the tick loop never tallies the first beat of a timeline, the one at
\* start_time, and with ticks at least 0.02 s apart it tallies every other
\* beat at most once: total_beats never exceeds the number of timeline beats
\* strictly after start_time whose time has been reached, during the session
\* and at its end.
C39_FirstBeatSkipped ==
    total_beats <= Cardinality(beats_after_start)

\* update() has run at the very time of the first beat, within 0.01 s of
\* it, and tallied nothing.
C39_Witness ==
    /\ is_tracking
    /\ last.op = "update"
    /\ last.was_tracking
    /\ last.current_time = start_time
    /\ RatEq(beat_times[1], RatOfInt(start_time))
    /\ total_beats = 0

(***************************************************************************)
(* SpecRace: one GameLogic driven by the main thread as in main.py while   *)
(* the audio thread delivers buffers.  start_tracking and                  *)
(* handle_audio_clap are taken statement by statement, so that the two     *)
(* threads interleave between any two statements; start_game up to its     *)
(* sleep, update and end_game are the actions of Spec.                     *)
(***************************************************************************)
MaxRaceSamples == 2

RaceTickInputs == {0, 100}

RaceSpecInit ==
    /\ songs = <<60>>
    /\ current_song = set_songs(<<60>>, None, None).song
    /\ current_bpm = set_songs(<<60>>, None, None).bpm
    /\ beat_times = <<>>
    /\ is_playing = FALSE
    /\ is_tracking = FALSE
    /\ start_time = 0
    /\ game_duration \in GameDurations
    /\ countdown \in GameCountdowns
    /\ tolerance = BEAT_TOLERANCE
    /\ score_threshold \in GameThresholds
    /\ mp_bpm = None
    /\ mp_playing = FALSE
    /\ \E mode \in {"keyboard", "audio"} :
          /\ input_mode = mode
          /\ last_press_time =
                IF mode = "keyboard" THEN [i \in 1..1 |-> 0] ELSE <<>>
          /\ player_claps =
                IF mode = "keyboard" THEN [i \in 1..1 |-> <<>>] ELSE <<>>
    /\ ScoringInit(1)
    /\ kb_is_tracking = FALSE
    /\ ended = 0
    /\ ui = UiInit
    /\ cb = CbIdle
    /\ AudioInit
    /\ now = ClockStart
    /\ pc = "idle"
    /\ last = [op |-> "init"]

\* start_game(): time.sleep(self.countdown) returns; start_tracking():
\* self.start_time = time.time()
RaceSetStartTime ==
    /\ pc = "countdown"
    /\ now + countdown <= GameEnd
    /\ now' = now + countdown
    /\ start_time' = now'
    /\ pc' = "set_tracking"
    /\ last' = [op |-> "start_tracking", at |-> "start_time"]
    /\ UNCHANGED <<songs, current_song, current_bpm, beat_times, is_playing,
                   is_tracking, game_duration, tolerance, score_threshold,
                   mp_bpm, scoreVars, audioVars, ioVars>>

\* start_tracking(): self.is_tracking = True
RaceSetTracking ==
    /\ pc = "set_tracking"
    /\ is_tracking' = TRUE
    /\ cb' = [cb EXCEPT !.counted = 0]
    /\ pc' = "beat_times"
    /\ last' = [op |-> "start_tracking", at |-> "is_tracking"]
    /\ UNCHANGED <<songs, current_song, current_bpm, beat_times, is_playing,
                   start_time, game_duration, tolerance, score_threshold,
                   mp_bpm, scoreVars, audioVars, input_mode, countdown,
                   mp_playing, kb_is_tracking, last_press_time, player_claps,
                   ended, ui, now>>

\* start_tracking(): self.beat_times = self.music_player.get_beat_times(...)
RaceBeatTimes ==
    /\ pc = "beat_times"
    /\ beat_times' = get_beat_times(mp_bpm, start_time, game_duration)
    /\ pc' = "reset"
    /\ last' = [op |-> "start_tracking", at |-> "beat_times"]
    /\ UNCHANGED <<songs, current_song, current_bpm, is_playing, is_tracking,
                   start_time, game_duration, tolerance, score_threshold,
                   mp_bpm, scoreVars, audioVars, ioVars, now>>

\* A variant of the reset step that leaves the counts as they are.
RaceResetSkipped ==
    /\ pc = "reset"
    /\ calls' = [i \in 1..player_count |-> [n |-> 0, k |-> 0]]
    /\ pc' = "inputs"
    /\ last' = [op |-> "start_tracking", at |-> "reset_scores"]
    /\ UNCHANGED <<gameVars, player_count, scores, total_beats, audioVars,
                   ioVars, now>>

\* start_tracking(): self.scoring.reset_scores()
RaceResetScores ==
    /\ pc = "reset"
    /\ scores' = reset_scores(player_count)
    /\ total_beats' = 0
    /\ calls' = [i \in 1..player_count |-> [n |-> 0, k |-> 0]]
    /\ pc' = "inputs"
    /\ last' = [op |-> "start_tracking", at |-> "reset_scores"]
    /\ UNCHANGED <<gameVars, player_count, audioVars, ioVars, now>>

\* start_tracking(): the input handler of the mode is started (in audio
\* mode the detector, if it is not running, which may fail), and
\* start_game() returns True.
RaceStartInputs ==
    /\ pc = "inputs"
    /\ \E audio_ok \in BOOLEAN :
          /\ kb_is_tracking' = IF input_mode = "keyboard" THEN TRUE
                               ELSE kb_is_tracking
          /\ player_claps' = IF input_mode = "keyboard"
                             THEN [p \in DOMAIN player_claps |-> <<>>]
                             ELSE player_claps
          /\ running' = IF input_mode = "audio" /\ ~running THEN audio_ok
                        ELSE running
          /\ input_mode = "keyboard" => audio_ok
          /\ running => audio_ok
    /\ pc' = "idle"
    /\ last' = [op |-> "start_game", result |-> TRUE]
    /\ UNCHANGED <<gameVars, scoreVars, threshold, min_time_between_claps,
                   last_clap_time, clap_count, clap_timestamps, rising_energy,
                   peak_in_progress, stream, input_mode, countdown,
                   mp_playing, last_press_time, ended, ui, cb, now>>

\* The audio thread: audio_callback on the next buffer, up to the point
\* where clap_detected invokes the callback.
RaceSample ==
    /\ running
    /\ cb.pc = "idle"
    /\ stream.fed < MaxRaceSamples
    /\ \E energy \in GameEnergyInputs, dt \in RaceTickInputs :
          LET current_time == now + dt
              d == detector_step(Detector, threshold, min_time_between_claps,
                                 energy, current_time)
          IN  /\ current_time <= GameEnd
              /\ now' = current_time
              /\ last_clap_time' = d.last_clap_time
              /\ clap_count' = d.clap_count
              /\ clap_timestamps' = d.clap_timestamps
              /\ rising_energy' = d.rising_energy
              /\ peak_in_progress' = d.peak_in_progress
              /\ stream' = [StreamAfter(stream, energy, current_time)
                               EXCEPT !.called = d.called]
              /\ cb' = IF d.called # stream.called
                       THEN [cb EXCEPT !.pc = "check",
                                       !.timestamp = current_time]
                       ELSE cb
              /\ last' = [op |-> "audio_callback", energy |-> energy,
                          current_time |-> current_time, running |-> running]
    /\ UNCHANGED <<gameVars, scoreVars, threshold, min_time_between_claps,
                   running, input_mode, countdown, mp_playing, kb_is_tracking,
                   last_press_time, player_claps, ended, ui, pc>>

\* handle_audio_clap: `if self.is_tracking:`
CallbackCheck ==
    /\ cb.pc = "check"
    /\ cb' = [cb EXCEPT !.pc = IF is_tracking THEN "judge" ELSE "idle"]
    /\ last' = [op |-> "handle_audio_clap", at |-> "is_tracking"]
    /\ UNCHANGED <<gameVars, scoreVars, audioVars, input_mode, countdown,
                   mp_playing, kb_is_tracking, last_press_time, player_claps,
                   ended, ui, now, pc>>

\* handle_audio_clap: is_on_beat = self.is_on_beat(timestamp)
CallbackJudge ==
    /\ cb.pc = "judge"
    /\ cb' = [cb EXCEPT !.pc = "register",
                        !.on_beat = is_on_beat(cb.timestamp, beat_times,
                                               tolerance),
                        !.judged_on = beat_times]
    /\ last' = [op |-> "handle_audio_clap", at |-> "is_on_beat"]
    /\ UNCHANGED <<gameVars, scoreVars, audioVars, input_mode, countdown,
                   mp_playing, kb_is_tracking, last_press_time, player_claps,
                   ended, ui, now, pc>>

\* handle_audio_clap: self.scoring.register_clap(1, is_on_beat)
CallbackRegister ==
    /\ cb.pc = "register"
    /\ scores' = register_clap(scores, 1, cb.on_beat)
    /\ calls' = IF 1 \in DOMAIN calls
                THEN [calls EXCEPT ![1] =
                         [n |-> @.n + 1,
                          k |-> IF cb.on_beat THEN @.k + 1 ELSE @.k]]
                ELSE calls
    /\ cb' = [cb EXCEPT !.pc = "idle", !.counted = @ + 1]
    /\ last' = [op |-> "handle_audio_clap", at |-> "register_clap"]
    /\ UNCHANGED <<gameVars, player_count, total_beats, audioVars,
                   input_mode, countdown, mp_playing, kb_is_tracking,
                   last_press_time, player_claps, ended, ui, now, pc>>

RaceNext ==
    \/ StartGame
    \/ RaceSetStartTime
    \/ RaceSetTracking
    \/ RaceBeatTimes
    \/ RaceResetScores
    \/ RaceStartInputs
    \/ Update
    \/ EndGame
    \/ GameAudioStart
    \/ GameAudioStop
    \/ RaceSample
    \/ CallbackCheck
    \/ CallbackJudge
    \/ CallbackRegister

SpecRace == RaceSpecInit /\ [][RaceNext]_vars

C29_SessionTimeline ==
    /\ []((pc = "idle" /\ is_tracking /\ input_mode = "audio") =>
             scores[1].claps = cb.counted)
    /\ [][(cb.pc = "register" /\ cb'.pc = "idle") =>
             cb.judged_on = get_beat_times(mp_bpm, start_time,
                                           game_duration)]_vars

(***************************************************************************)
(* SpecUI: the graphical front end RhythmGameUI (main_ui.py) under any     *)
(* sequence of its commands.  start_game builds a new GameLogic with new   *)
(* handlers and a new scoreboard each time; the game's variables are those *)
(* of the game self.game refers to.  fix_config, which rewrites config.py  *)
(* and changes nothing here, is left out; the loop calls update() every    *)
(* 3.24 s (two beats of the slowest song), so that a session of 20 s is    *)
(* over at the seventh call, and at each call either every participant's   *)
(* key is down or none is.                                                 *)
(***************************************************************************)
MaxUiGames == 2

\* config.SONGS: the tempos in the order of the dictionary.
SONGS == <<74, 84, 92, 104, 110, 116, 140>>

CALIBRATION_SECONDS == 3
UiTickInputs   == {324}
UiAmbientLists == {<<>>, <<10, 30>>}

\* initialize_game: "slow" keeps every song, "medium" those of 90 bpm and
\* more.
filtered_songs(tempo_mode) ==
    IF tempo_mode = "slow" THEN SONGS
    ELSE SelectSeq(SONGS, LAMBDA bpm : bpm >= 90)

Live == ui.state \in {"menu", "game", "results", "error"}

UiSpecInit ==
    /\ GameInit
    /\ ScoringInit(0)
    /\ AudioInit
    /\ input_mode = "keyboard"
    /\ countdown = COUNTDOWN_DURATION
    /\ mp_playing = FALSE
    /\ kb_is_tracking = FALSE
    /\ last_press_time = <<>>
    /\ player_claps = <<>>
    /\ ended = 0
    /\ \E verified \in BOOLEAN :
          ui = [UiInit EXCEPT !.state = IF verified THEN "menu" ELSE "error"]
    /\ cb = CbIdle
    /\ now = ClockStart
    /\ pc = "idle"
    /\ last = [op |-> "init"]

\* A radio button of the menu is clicked.
UISelect ==
    /\ ui.state = "menu"
    /\ \E mode \in {"keyboard", "audio"}, tempo \in {"slow", "medium"} :
          /\ (mode # ui.input_mode) # (tempo # ui.tempo_mode)
          /\ ui' = [ui EXCEPT !.input_mode = mode, !.tempo_mode = tempo]
    /\ last' = [op |-> "ui_select"]
    /\ UNCHANGED <<gameVars, scoreVars, audioVars, input_mode, countdown,
                   mp_playing, kb_is_tracking, last_press_time, player_claps,
                   ended, cb, now, pc>>

\* RhythmGameUI.start_game (START GAME, PLAY AGAIN): initialize_game builds
\* the handlers, the scoreboard and the GameLogic (in audio mode the new
\* AudioHandler is calibrated, which raises if its stream cannot be opened,
\* and started), then GameLogic.start_game runs to its end.  The game that
\* self.game referred to is dropped as it is.
UIStartGame ==
    /\ pc = "idle"
    /\ ui.state \in {"menu", "results"}
    /\ ui.built < MaxUiGames
    /\ \E opened \in BOOLEAN, energy_values \in UiAmbientLists,
          audio_ok \in BOOLEAN, retry_ok \in BOOLEAN, load_ok \in BOOLEAN :
          LET mode    == ui.input_mode
              count   == IF mode = "keyboard" THEN 2 ELSE 1
              catalog == filtered_songs(ui.tempo_mode)
              first   == set_songs(catalog, None, None)
              stale   == IF ui.game /\ running THEN 1 ELSE 0
              sampled == IF mode = "audio"
                         THEN CALIBRATION_SECONDS * TicksPerSecond ELSE 0
              began   == now + sampled + COUNTDOWN_DURATION
          IN  IF mode = "audio" /\ ~opened
              THEN /\ energy_values = <<>> /\ audio_ok /\ retry_ok /\ load_ok
                   /\ ui' = [ui EXCEPT !.state = "crashed"]
                   /\ last' = [op |-> "ui_start_game", mode |-> mode,
                               outcome |-> "raised"]
                   /\ UNCHANGED <<gameVars, scoreVars, audioVars, input_mode,
                                  countdown, mp_playing, kb_is_tracking,
                                  last_press_time, player_claps, ended, cb,
                                  now>>
              ELSE /\ mode = "keyboard" =>
                        (opened /\ energy_values = <<>> /\ audio_ok)
                   /\ (audio_ok \/ ~load_ok) => retry_ok
                   /\ songs' = catalog
                   /\ current_song' = first.song
                   /\ current_bpm' = first.bpm
                   /\ game_duration' = DEFAULT_GAME_DURATION
                   /\ countdown' = COUNTDOWN_DURATION
                   /\ tolerance' = BEAT_TOLERANCE
                   /\ score_threshold' = SCORE_THRESHOLD
                   /\ input_mode' = mode
                   /\ player_count' = count
                   /\ scores' = reset_scores(count)
                   /\ total_beats' = 0
                   /\ calls' = [i \in 1..count |-> [n |-> 0, k |-> 0]]
                   /\ last_press_time' = IF mode = "keyboard"
                                         THEN [i \in 1..count |-> 0] ELSE <<>>
                   /\ player_claps' = IF mode = "keyboard"
                                      THEN [i \in 1..count |-> <<>>] ELSE <<>>
                   /\ threshold' = IF mode = "audio"
                                   THEN calibrate(DEFAULT_THRESHOLD,
                                                  energy_values)
                                   ELSE DEFAULT_THRESHOLD
                   /\ min_time_between_claps' = MIN_TIME_BETWEEN_CLAPS
                   /\ last_clap_time' = 0
                   /\ clap_count' = 0
                   /\ clap_timestamps' = <<>>
                   /\ rising_energy' = FALSE
                   /\ peak_in_progress' = FALSE
                   /\ stream' = [fed |-> 0, pending |-> FALSE, owed |-> <<>>,
                                 inwin |-> FALSE, muted |-> FALSE,
                                 called |-> <<>>]
                   /\ cb' = CbIdle
                   /\ ended' = 0
                   /\ mp_bpm' = IF first.song = None THEN None ELSE first.bpm
                   /\ IF first.song # None /\ load_ok
                      THEN /\ now' = began
                           /\ start_time' = began
                           /\ is_playing' = TRUE
                           /\ is_tracking' = TRUE
                           /\ mp_playing' = TRUE
                           /\ beat_times' = get_beat_times(first.bpm, began,
                                                           DEFAULT_GAME_DURATION)
                           /\ kb_is_tracking' = (mode = "keyboard")
                           /\ running' = (mode = "audio"
                                            /\ (audio_ok \/ retry_ok))
                      ELSE /\ now' = now + sampled
                           /\ start_time' = 0
                           /\ is_playing' = FALSE
                           /\ is_tracking' = FALSE
                           /\ mp_playing' = FALSE
                           /\ beat_times' = <<>>
                           /\ kb_is_tracking' = FALSE
                           /\ running' = (mode = "audio" /\ audio_ok)
                   /\ ui' = [ui EXCEPT
                                !.state = IF first.song # None /\ load_ok
                                          THEN "game" ELSE "error",
                                !.game = TRUE,
                                !.orphans = @ + stale,
                                !.built = @ + 1]
                   /\ last' = [op |-> "ui_start_game", mode |-> mode,
                               outcome |-> IF first.song # None /\ load_ok
                                           THEN "game" ELSE "error"]
    /\ UNCHANGED pc

\* A variant of RhythmGameUI.update that ignores what game.update() returns.
UIUpdateKeepsState ==
    /\ pc = "idle"
    /\ ui.state = "game"
    /\ ui.game
    /\ \E dt \in UiTickInputs, esc \in BOOLEAN,
          pressed \in {{}, DOMAIN last_press_time} :
          UpdateAt(dt, 0, esc, pressed)
    /\ UNCHANGED <<audioVars, ui, cb, pc>>

\* RhythmGameUI.update: in the game state, game.update(); when it returns
\* False, RhythmGameUI.end_game (whose game.end_game() finds the game
\* already ended) shows the results.
UIUpdate ==
    /\ pc = "idle"
    /\ ui.state = "game"
    /\ ui.game
    /\ \E dt \in UiTickInputs, esc \in BOOLEAN,
          pressed \in {{}, DOMAIN last_press_time} :
          UpdateAt(dt, 0, esc, pressed)
    /\ ui' = IF last'.result THEN ui ELSE [ui EXCEPT !.state = "results"]
    /\ UNCHANGED <<audioVars, cb, pc>>

\* RhythmGameUI.end_game on the Escape key in the game state.
UIEndGame ==
    /\ pc = "idle"
    /\ ui.state = "game"
    /\ ui.game
    /\ IF is_playing
       THEN /\ EndGameWith(scores)
            /\ UNCHANGED <<songs, beat_times, start_time, game_duration,
                           tolerance, score_threshold, mp_bpm, input_mode,
                           countdown, last_press_time, player_claps>>
       ELSE UNCHANGED <<gameVars, input_mode, countdown, mp_playing,
                        kb_is_tracking, last_press_time, player_claps, ended>>
    /\ ui' = [ui EXCEPT !.state = "results"]
    /\ last' = [op |-> "ui_end_game"]
    /\ UNCHANGED <<scoreVars, audioVars, cb, now, pc>>

\* RhythmGameUI.return_to_menu (BACK in the game state, RETURN TO MENU or
\* Escape in the results state).
UIReturnToMenu ==
    /\ pc = "idle"
    /\ ui.state \in {"game", "results"}
    /\ IF ui.game /\ is_playing
       THEN /\ EndGameWith(scores)
            /\ UNCHANGED <<songs, beat_times, start_time, game_duration,
                           tolerance, score_threshold, mp_bpm, input_mode,
                           countdown, last_press_time, player_claps>>
       ELSE UNCHANGED <<gameVars, input_mode, countdown, mp_playing,
                        kb_is_tracking, last_press_time, player_claps, ended>>
    /\ running' = IF ui.game /\ input_mode = "audio" /\ running THEN FALSE
                  ELSE running
    /\ ui' = [ui EXCEPT !.state = "menu", !.game = FALSE]
    /\ last' = [op |-> "ui_return_to_menu"]
    /\ UNCHANGED <<scoreVars, threshold, min_time_between_claps,
                   last_clap_time, clap_count, clap_timestamps, rising_energy,
                   peak_in_progress, stream, cb, now, pc>>

\* RhythmGameUI.retry_after_error: back to the menu if the music files are
\* found.
UIRetryAfterError ==
    /\ ui.state = "error"
    /\ \E verified \in BOOLEAN :
          ui' = [ui EXCEPT !.state = IF verified THEN "menu" ELSE "error"]
    /\ last' = [op |-> "ui_retry"]
    /\ UNCHANGED <<gameVars, scoreVars, audioVars, input_mode, countdown,
                   mp_playing, kb_is_tracking, last_press_time, player_claps,
                   ended, cb, now, pc>>

\* RhythmGameUI.quit_game (window closed, Escape in the menu or on the error
\* screen).
UIQuit ==
    /\ Live
    /\ running' = IF ui.game /\ input_mode = "audio" /\ running THEN FALSE
                  ELSE running
    /\ ui' = [ui EXCEPT !.state = "quit"]
    /\ last' = [op |-> "ui_quit"]
    /\ UNCHANGED <<gameVars, scoreVars, threshold, min_time_between_claps,
                   last_clap_time, clap_count, clap_timestamps, rising_energy,
                   peak_in_progress, stream, input_mode, countdown,
                   mp_playing, kb_is_tracking, last_press_time, player_claps,
                   ended, cb, now, pc>>

UiNext ==
    \/ UISelect
    \/ UIStartGame
    \/ UIUpdate
    \/ UIEndGame
    \/ UIReturnToMenu
    \/ UIRetryAfterError
    \/ UIQuit

SpecUI == UiSpecInit /\ [][UiNext]_vars

\* The AudioHandlers that are capturing: those of dropped games that were
\* never stopped, and the current game's if it is running.
Capturing == ui.orphans + (IF running THEN 1 ELSE 0)

\* C21: at most one audio detector is capturing at any time, and whenever a
\* new AudioHandler is calibrated or started every AudioHandler started
\* before has been stopped.
C21_OneDetector ==
    /\ [](Capturing <= 1)
    /\ [][(last'.op = "ui_start_game" /\ last'.mode = "audio") =>
             (~running /\ ui.orphans = 0)]_vars

\* C32: difficulty progression carries across sessions.  When PLAY AGAIN on
\* the results screen starts a session, the track and tempo it plays are the
\* ones select_next_song chose at the end of the session before.
C32_ProgressionCarries ==
    [][(ui.state = "results" /\ ui.game
          /\ last'.op = "ui_start_game" /\ last'.outcome = "game") =>
         (current_song' = current_song /\ mp_bpm' = current_bpm)]_vars

(***************************************************************************)
(* SpecLive: sessions of one GameLogic driven by a front end's loop only:  *)
(* start_game from the menu (never during a session: the loop of main()    *)
(* returns to the menu when update() has returned False), the countdown,   *)
(* and update() called again and again while the clock advances.  The      *)
(* front end never calls end_game itself; the stop key is read by update().*)
(* set_songs has been called once, with a catalog of one track or of three *)
(* tracks of which two share a tempo.  Sessions are started until          *)
(* LiveStartEnd; LiveEnd, which no session reaches, closes the state       *)
(* space.                                                                  *)
(***************************************************************************)
MaxLiveSeconds == 2

LiveTickInputs == {40, 100}
LiveDurations  == {1 * TicksPerSecond, 2 * TicksPerSecond}
LiveCatalogs   == {<<60>>, <<120, 60, 120>>}
LiveStartEnd   == ClockStart + MaxLiveSeconds * TicksPerSecond
LiveEnd        == LiveStartEnd + 5 * TicksPerSecond

LiveSpecInit ==
    /\ \E catalog \in LiveCatalogs :
          /\ songs = catalog
          /\ current_song = set_songs(catalog, None, None).song
          /\ current_bpm = set_songs(catalog, None, None).bpm
    /\ beat_times = <<>>
    /\ is_playing = FALSE
    /\ is_tracking = FALSE
    /\ start_time = 0
    /\ game_duration \in LiveDurations
    /\ countdown = 1 * TicksPerSecond
    /\ tolerance = BEAT_TOLERANCE
    /\ score_threshold = SCORE_THRESHOLD
    /\ mp_bpm = None
    /\ mp_playing = FALSE
    /\ \E mode \in {"keyboard", "audio"} :
          /\ input_mode = mode
          /\ last_press_time =
                IF mode = "keyboard" THEN [i \in 1..1 |-> 0] ELSE <<>>
          /\ player_claps =
                IF mode = "keyboard" THEN [i \in 1..1 |-> <<>>] ELSE <<>>
    /\ ScoringInit(1)
    /\ kb_is_tracking = FALSE
    /\ ended = 0
    /\ ui = UiInit
    /\ cb = CbIdle
    /\ AudioInit
    /\ now = ClockStart
    /\ pc = "idle"
    /\ last = [op |-> "init"]

\* "1. Start Game" of the menu.
LiveStartGame ==
    /\ ~is_playing
    /\ now <= LiveStartEnd
    /\ StartGame

\* The countdown sleep ends.
LiveStartTracking ==
    /\ pc = "countdown"
    /\ StartTracking

\* update() at the next turn of the loop.
LiveUpdate ==
    /\ pc = "idle"
    /\ \E dt \in LiveTickInputs, esc \in BOOLEAN,
          pressed \in SUBSET (DOMAIN last_press_time) :
          /\ is_playing => now + dt <= LiveEnd
          /\ UpdateAt(dt, 0, esc, pressed)
    /\ UNCHANGED <<audioVars, ui, cb, pc>>

LiveNext == LiveStartGame \/ LiveStartTracking \/ LiveUpdate

\* The sleep of the countdown returns, and the loop keeps calling update().
SpecLive ==
    /\ LiveSpecInit
    /\ [][LiveNext]_vars
    /\ WF_vars(LiveStartTracking)
    /\ WF_vars(LiveUpdate)

\* C34: while the clock advances and update() keeps being called, every
\* session that enters Tracking ends: is_playing becomes false by an update()
\* that returns False, whether or not a stop is requested or an input
\* arrives; and while a session plays the next update() is always possible
\* (the end of the modelled clock is never what stops a session).
C34_SessionEnds ==
    /\ []((is_playing /\ pc = "idle") => now + 100 <= LiveEnd)
    /\ (is_tracking ~>
           (~is_playing /\ last.op = "update" /\ ~last.result))

\* A session has ended by its duration in an update() that read no stop key,
\* without any input having been scored.
C34_Witness ==
    /\ ~is_playing
    /\ ~is_tracking
    /\ last.op = "update"
    /\ ~last.result
    /\ ~last.esc
    /\ last.current_time - start_time > game_duration
    /\ scores[1].claps = 0
    /\ ended = 1

\* C35: after set_songs has been called once with a non-empty catalog, every
\* sequence of sessions keeps current_song a track of the catalog and
\* current_bpm the catalog tempo of that track.
C35_SongInCatalog ==
    /\ current_song \in 1..Len(songs)
    /\ current_bpm = songs[current_song]

\* A second session is tracking on the track that the selection moved to at
\* the end of the first.
C35_Witness ==
    /\ songs = <<120, 60, 120>>
    /\ current_song = 2
    /\ mp_bpm = 60
    /\ is_tracking
    /\ last.op = "update"

(***************************************************************************)
(* SpecProgress: one GameLogic reused session after session, each session  *)
(* reduced to its outcome: the scoreboard that end_game reads (an on-beat  *)
(* count of 0, of the threshold or of one more for the single participant) *)
(* and the select_next_song that end_game ends with.  The catalog is any sequence  *)
(* of up to MaxProgressSongs pairwise distinct tempos, and set_songs has   *)
(* been called once.  Sessions keep being played.                          *)
(***************************************************************************)
MaxProgressSongs == 3

ProgressOnBeat == {0, SCORE_THRESHOLD, SCORE_THRESHOLD + 1}

ProgressCatalogs ==
    {c \in UNION {[1..n -> TempoInputs] : n \in 1..MaxProgressSongs} :
        \A i, j \in DOMAIN c : c[i] = c[j] => i = j}

ProgressInit ==
    /\ \E catalog \in ProgressCatalogs :
          /\ songs = catalog
          /\ current_song = set_songs(catalog, None, None).song
          /\ current_bpm = set_songs(catalog, None, None).bpm
    /\ beat_times = <<>>
    /\ is_playing = FALSE
    /\ is_tracking = FALSE
    /\ start_time = 0
    /\ game_duration = DEFAULT_GAME_DURATION
    /\ tolerance = BEAT_TOLERANCE
    /\ score_threshold = SCORE_THRESHOLD
    /\ mp_bpm = None
    /\ ScoringInit(1)
    /\ AudioInit
    /\ now = 0
    /\ pc = "idle"
    /\ IoInit(1)
    /\ last = [op |-> "init"]

\* A session from start_game to the end of end_game: the track is loaded at
\* current_bpm, the scoreboard is reset and filled, and end_game selects the
\* next track.
PlaySession ==
    \E on \in ProgressOnBeat :
        LET sc == [reset_scores(1) EXCEPT ![1] =
                       [claps |-> on, on_beat |-> on]]
            r  == select_next_song(songs, current_song, current_bpm, sc,
                                   score_threshold)
        IN  /\ mp_bpm' = current_bpm
            /\ scores' = sc
            /\ calls' = [i \in 1..1 |-> [n |-> on, k |-> on]]
            /\ current_song' = r.song
            /\ current_bpm' = r.bpm
            /\ last' = [op |-> "session", played |-> current_bpm,
                        performance |-> sc[get_winner(sc)].on_beat,
                        outcome |-> r.outcome]
            /\ UNCHANGED <<songs, beat_times, is_playing, is_tracking,
                           start_time, game_duration, tolerance,
                           score_threshold, player_count, total_beats,
                           audioVars, ioVars, now, pc>>

ProgressNext == PlaySession

SpecProgress ==
    /\ ProgressInit
    /\ [][ProgressNext]_vars
    /\ WF_vars(PlaySession)

\* The highest and the lowest tempo of the catalog.
Highest == CHOOSE b \in {songs[i] : i \in DOMAIN songs} :
               \A i \in DOMAIN songs : songs[i] <= b
Lowest  == CHOOSE b \in {songs[i] : i \in DOMAIN songs} :
               \A i \in DOMAIN songs : songs[i] >= b

C37_TrackingOnly ==
    [][(last'.op \in {"update", "audio_callback"} /\ ~is_tracking) =>
          scores' = scores]_vars

\* The detector has recorded an onset during the countdown, and the
\* scoreboard holds no clap.
C37_Witness ==
    /\ pc = "countdown"
    /\ ~is_tracking
    /\ last.op = "audio_callback"
    /\ clap_count = 1
    /\ last_clap_time = last.current_time
    /\ stream.called = <<last.current_time>>
    /\ scores[1].claps = 0

\* C38: with the audio callback interleaving with the main thread's end_game,
\* the scores read at finalization are final: once end_game has cleared
\* is_tracking and read the scores and the winner, no step changes any
\* participant's score until the next start_game.
C38_FinalScores ==
    [][(~is_tracking /\ ended >= 1) => scores' = scores]_vars

\* C40: in the pygame UI, whenever the state is "game" (between any two
\* handlers of the loop, so at every frame drawn) the game object exists and
\* is Tracking, is_playing and is_tracking both true: a GameLogic that is
\* counting down is never observed, so the countdown branch of draw_game is
\* never taken.
C40_GameIsTracking ==
    ui.state = "game" => (ui.game /\ is_playing /\ is_tracking)

\* The game started by PLAY AGAIN is on screen and update() has run on it.
C40_Witness ==
    /\ ui.state = "game"
    /\ ui.built = 2
    /\ ended = 0
    /\ last.op = "update"
    /\ last.was_tracking
    /\ last.result

====
